---- MODULE Spec2Model ----
(***************************************************************************)
(* Model of mpf/core/show_controller.py: the ShowController's per-frame    *)
(* update lists and their flush, the running-show set (_run_show,          *)
(* _end_show, restore_lower_lights) and the per-frame _tick.               *)
(*                                                                         *)
(* Devices (lights, LEDs) and Show objects live outside this file; only    *)
(* the attributes the controller reads or writes are kept.  A device is    *)
(* reduced to the priority of its current state and of its cache.          *)
(***************************************************************************)
EXTENDS Integers, Sequences, FiniteSets, TLC

\* ------------------------------------------------------------------------
\* Bounds and finite input domains
\* ------------------------------------------------------------------------
MaxPriority == 1
MaxPending == 2

Lights == {"l1", "l2"}
Leds == {"d1", "d2"}
Priorities == 0..MaxPriority
Brightness == {255}
Colors == {<<255, 0, 0>>}
Shows == {"s1", "s2"}
Keys == {"k1", "k2"}
None == "None"
ResetArgs == {None, "True", "False"}
ClockTimes == {0, 1}
MaxQueue == 1
MaxBacklog == 2
ExternalNames == {"e1"}
Observers == {"h1"}

VARIABLES
    light_update_list,  \* ShowController.light_update_list
    led_update_list,    \* ShowController.led_update_list
    light_state,        \* light.state['priority'] per light
    light_cache,        \* light.cache['priority'] per light
    led_state,          \* led.state['priority'] per LED
    led_cache,          \* led.cache['priority'] per LED
    shows,              \* the attributes of each Show object
    running_shows,      \* ShowController.running_shows
    running_show_keys,  \* ShowController.running_show_keys
    current_tick_time,  \* ShowController.current_tick_time
    registered_tick_handlers,     \* ShowController.registered_tick_handlers
    external_show_connected,      \* ShowController.external_show_connected
    external_show_command_queue,  \* ShowController.external_show_command_queue
    running_external_show_keys,   \* ShowController.running_external_show_keys
    pc,                 \* where the main thread is: "idle" or inside _tick
    tick_i,             \* _tick: index of the loop over running_shows
    handlers_left,      \* _tick: handlers the set iterator has yet to yield
    iterated,           \* _tick: the list object the loop over the shows iterates
    iter_size,          \* _tick: size of the set when its iterator was made
    playlist,           \* the fields of the Playlist object
    queue,              \* ShowController.queue
    played,             \* the steps the playlist has played since it was reset
    shot,               \* the Shot: its profile, its attributes, its player variable
    show_player,        \* the show_player section of the mode's config
    event_handlers,     \* the handlers the section has registered for events
    player_mode,        \* the mode of the section: started or not, its priority
    op,                 \* the handler that ran last, with its arguments
    calls               \* what that handler did to the devices, in order

update_vars == <<light_update_list, led_update_list>>
device_vars == <<light_state, light_cache, led_state, led_cache>>
show_vars == <<shows, running_shows, running_show_keys, current_tick_time>>
external_vars == <<registered_tick_handlers, external_show_connected,
                   external_show_command_queue, running_external_show_keys>>
tick_vars == <<pc, tick_i, handlers_left, iter_size, iterated>>
playlist_vars == <<playlist, queue, played>>
log_vars == <<op, calls>>
player_vars == <<show_player, event_handlers, player_mode>>
vars == <<update_vars, device_vars, show_vars, external_vars, tick_vars,
          playlist_vars, shot, player_vars, log_vars>>

\* ------------------------------------------------------------------------
\* Python list helpers
\* ------------------------------------------------------------------------
\* list.remove(x): drops the first element equal to x
RECURSIVE ListRemove(_, _)
ListRemove(lst, x) ==
    IF lst = <<>> THEN <<>>
    ELSE IF Head(lst) = x THEN Tail(lst)
    ELSE <<Head(lst)>> \o ListRemove(Tail(lst), x)

\* ------------------------------------------------------------------------
\* Device facade (outside this file): only the priority bookkeeping
\* ------------------------------------------------------------------------
\* light.on(priority=p, cache=False) / led.color(priority=p, cache=False):
\* the device takes the write when p is not below its state priority
DeviceWrite(state_priority, p) ==
    IF p >= state_priority THEN p ELSE state_priority

\* ------------------------------------------------------------------------
\* add_to_light_update_list / add_to_led_update_list
\* ------------------------------------------------------------------------
LightRemoveCondStrict(item, light, priority) ==
    item.light = light /\ item.priority < priority

LightRemoveCondAnyPriority(item, light, priority) ==
    item.light = light

\* line 493: if item['light'] == light and item['priority'] <= priority
LightRemoveCond(item, light, priority) ==
    item.light = light /\ item.priority <= priority

\* line 504: if item['led'] == led and item['priority'] <= priority
LedRemoveCond(item, led, priority) ==
    item.led = led /\ item.priority <= priority

\* lines 492-494: "for item in list: if cond: list.remove(item)".  The list
\* iterator holds an index i into the live list; a removal shifts the tail
\* left while i still moves on.
RECURSIVE LightRemoveLoop(_, _, _, _)
LightRemoveLoop(lst, i, light, priority) ==
    IF i > Len(lst) THEN lst
    ELSE IF LightRemoveCond(lst[i], light, priority)
         THEN LightRemoveLoop(ListRemove(lst, lst[i]), i + 1, light, priority)
         ELSE LightRemoveLoop(lst, i + 1, light, priority)

RECURSIVE LedRemoveLoop(_, _, _, _)
LedRemoveLoop(lst, i, led, priority) ==
    IF i > Len(lst) THEN lst
    ELSE IF LedRemoveCond(lst[i], led, priority)
         THEN LedRemoveLoop(ListRemove(lst, lst[i]), i + 1, led, priority)
         ELSE LedRemoveLoop(lst, i + 1, led, priority)

LightRecord(light, brightness, fade_ms, priority, blend) ==
    [light |-> light, brightness |-> brightness, fade_ms |-> fade_ms,
     priority |-> priority, blend |-> blend]

LedRecord(led, color, fade_ms, priority, blend) ==
    [led |-> led, color |-> color, fade_ms |-> fade_ms,
     priority |-> priority, blend |-> blend]

LightListAfterAdd(lst, light, brightness, fade_ms, priority, blend) ==
    Append(LightRemoveLoop(lst, 1, light, priority),
           LightRecord(light, brightness, fade_ms, priority, blend))

LedListAfterAdd(lst, led, color, fade_ms, priority, blend) ==
    Append(LedRemoveLoop(lst, 1, led, priority),
           LedRecord(led, color, fade_ms, priority, blend))

\* the model keeps at most MaxPending records pending over both lists
RoomFor(light_list, led_list) ==
    Len(light_list) + Len(led_list) <= MaxPending

add_to_light_update_list(light, brightness, fade_ms, priority, blend) ==
    LET new == LightListAfterAdd(light_update_list, light, brightness,
                                 fade_ms, priority, blend)
    IN /\ RoomFor(new, led_update_list)
       /\ light_update_list' = new
       /\ op' = [name |-> "add_to_light_update_list", device |-> light,
                 priority |-> priority]
       /\ calls' = <<>>
       /\ UNCHANGED <<player_vars, shot, playlist_vars, external_vars, tick_vars, led_update_list, device_vars, show_vars>>

add_to_led_update_list(led, color, fade_ms, priority, blend) ==
    LET new == LedListAfterAdd(led_update_list, led, color, fade_ms,
                               priority, blend)
    IN /\ RoomFor(light_update_list, new)
       /\ led_update_list' = new
       /\ op' = [name |-> "add_to_led_update_list", device |-> led,
                 priority |-> priority]
       /\ calls' = <<>>
       /\ UNCHANGED <<player_vars, shot, playlist_vars, external_vars, tick_vars, light_update_list, device_vars, show_vars>>

AddLight ==
    \E light \in Lights, brightness \in Brightness, priority \in Priorities :
        add_to_light_update_list(light, brightness, 0, priority, FALSE)

AddLed ==
    \E led \in Leds, color \in Colors, priority \in Priorities :
        add_to_led_update_list(led, color, 0, priority, FALSE)

\* ------------------------------------------------------------------------
\* _do_update: the flush of the pending lists
\* ------------------------------------------------------------------------
Call(fn, device, priority, seen) ==
    [fn |-> fn, device |-> device, priority |-> priority, seen |-> seen]

\* lines 579-583: every pending light record is handed to light.on()
RECURSIVE UpdateLightsLoop(_, _, _)
UpdateLightsLoop(lst, state, log) ==
    IF lst = <<>> THEN [state |-> state, log |-> log]
    ELSE LET item == Head(lst)
             seen == state[item.light]
         IN UpdateLightsLoop(
                Tail(lst),
                [state EXCEPT ![item.light] = DeviceWrite(seen, item.priority)],
                Append(log, Call("on", item.light, item.priority, seen)))

LedGateStrict(priority, state_priority) ==
    priority > state_priority

\* line 600: if item['priority'] >= item['led'].state['priority']
LedGate(priority, state_priority) ==
    priority >= state_priority

\* lines 597-622: a pending LED record reaches led.color() when it passes
\* the gate; "none" logs a record that was processed without a device call
RECURSIVE UpdateLedsLoop(_, _, _)
UpdateLedsLoop(lst, state, log) ==
    IF lst = <<>> THEN [state |-> state, log |-> log]
    ELSE LET item == Head(lst)
             seen == state[item.led]
         IN IF LedGate(item.priority, seen)
            THEN UpdateLedsLoop(
                     Tail(lst),
                     [state EXCEPT ![item.led] = DeviceWrite(seen, item.priority)],
                     Append(log, Call("color", item.led, item.priority, seen)))
            ELSE UpdateLedsLoop(
                     Tail(lst), state,
                     Append(log, Call("none", item.led, item.priority, seen)))

RECURSIVE UpdateLightsGatedLoop(_, _, _)
UpdateLightsGatedLoop(lst, state, log) ==
    IF lst = <<>> THEN [state |-> state, log |-> log]
    ELSE LET item == Head(lst)
             seen == state[item.light]
         IN IF item.priority >= seen
            THEN UpdateLightsGatedLoop(
                     Tail(lst),
                     [state EXCEPT ![item.light] = DeviceWrite(seen, item.priority)],
                     Append(log, Call("on", item.light, item.priority, seen)))
            ELSE UpdateLightsGatedLoop(Tail(lst), state, log)

UpdateLightsGated(lst, state) == UpdateLightsGatedLoop(lst, state, <<>>)

\* lines 574-585
UpdateLights(lst, state) == UpdateLightsLoop(lst, state, <<>>)

\* lines 587-624
UpdateLeds(lst, state) == UpdateLedsLoop(lst, state, <<>>)

\* lines 532-536; both lists are empty afterwards (lines 585, 624)
DoUpdate ==
    LET lights == UpdateLights(light_update_list, light_state)
        leds == UpdateLeds(led_update_list, led_state)
    IN /\ light_state' = lights.state
       /\ led_state' = leds.state
       /\ light_update_list' = <<>>
       /\ led_update_list' = <<>>
       /\ op' = [name |-> "_do_update", device |-> "", priority |-> 0]
       /\ calls' = lights.log \o leds.log
       /\ UNCHANGED <<player_vars, shot, playlist_vars, external_vars, tick_vars, light_cache, led_cache, show_vars>>

\* ------------------------------------------------------------------------
\* The rest of the machine acting on a device between frames
\* ------------------------------------------------------------------------
\* a cached write by other code: light.on(priority=p) / led.color(priority=p)
LightSet(light, p) ==
    /\ p >= light_state[light]
    /\ light_state' = [light_state EXCEPT ![light] = p]
    /\ light_cache' = [light_cache EXCEPT ![light] = p]
    /\ op' = [name |-> "light.on", device |-> light, priority |-> p]
    /\ calls' = <<>>
    /\ UNCHANGED <<player_vars, shot, playlist_vars, external_vars, tick_vars, update_vars, led_state, led_cache, show_vars>>

LedSet(led, p) ==
    /\ p >= led_state[led]
    /\ led_state' = [led_state EXCEPT ![led] = p]
    /\ led_cache' = [led_cache EXCEPT ![led] = p]
    /\ op' = [name |-> "led.color", device |-> led, priority |-> p]
    /\ calls' = <<>>
    /\ UNCHANGED <<player_vars, shot, playlist_vars, external_vars, tick_vars, update_vars, light_state, light_cache, show_vars>>

\* restore(): the device goes back to its cache
LightRestore(light) ==
    /\ light_state[light] # light_cache[light]
    /\ light_state' = [light_state EXCEPT ![light] = light_cache[light]]
    /\ op' = [name |-> "light.restore", device |-> light, priority |-> 0]
    /\ calls' = <<>>
    /\ UNCHANGED <<player_vars, shot, playlist_vars, external_vars, tick_vars, update_vars, light_cache, led_state, led_cache, show_vars>>

LedRestore(led) ==
    /\ led_state[led] # led_cache[led]
    /\ led_state' = [led_state EXCEPT ![led] = led_cache[led]]
    /\ op' = [name |-> "led.restore", device |-> led, priority |-> 0]
    /\ calls' = <<>>
    /\ UNCHANGED <<player_vars, shot, playlist_vars, external_vars, tick_vars, update_vars, light_state, light_cache, led_cache, show_vars>>

DeviceSet ==
    \/ \E light \in Lights, p \in Priorities : LightSet(light, p)
    \/ \E led \in Leds, p \in Priorities : LedSet(led, p)

DeviceRestore ==
    \/ \E light \in Lights : LightRestore(light)
    \/ \E led \in Leds : LedRestore(led)

\* ------------------------------------------------------------------------
\* Show objects (mpf.assets.show, outside this file)
\* ------------------------------------------------------------------------
\* what each show was built with: the devices its steps write to, its sync
\* offset, its default reset flag, whether play() was given a callback
ShowLights == [s \in Shows |-> IF s = "s1" THEN {"l1"} ELSE {"l1", "l2"}]
ShowLeds == [s \in Shows |-> IF s = "s1" THEN {"d1", "d2"} ELSE {"d2"}]
ShowSyncMs == [s \in Shows |-> IF s = "s1" THEN 0 ELSE 1000]
ShowReset == [s \in Shows |-> s = "s1"]
ShowCallback == [s \in Shows |-> IF s = "s1" THEN "callback" ELSE None]

NewShow(s) ==
    [running |-> FALSE, ending |-> FALSE, current_loop_number |-> 0,
     next_step_time |-> 0, current_step |-> 0, priority |-> 0,
     hold |-> FALSE, reset |-> ShowReset[s], sync_ms |-> ShowSyncMs[s],
     callback |-> ShowCallback[s], light_states |-> ShowLights[s],
     led_states |-> ShowLeds[s]]

\* ------------------------------------------------------------------------
\* _run_show
\* ------------------------------------------------------------------------
InList(lst, x) == \E i \in 1..Len(lst) : lst[i] = x

\* line 344: running_shows.sort(key=lambda x: x.priority); the sort is stable
RECURSIVE InsertByPriority(_, _, _)
InsertByPriority(sorted, x, attrs) ==
    IF sorted = <<>> THEN <<x>>
    ELSE IF attrs[x].priority < attrs[sorted[Len(sorted)]].priority
         THEN Append(InsertByPriority(SubSeq(sorted, 1, Len(sorted) - 1),
                                      x, attrs),
                     sorted[Len(sorted)])
         ELSE Append(sorted, x)

RECURSIVE SortByPriority(_, _)
SortByPriority(lst, attrs) ==
    IF lst = <<>> THEN <<>>
    ELSE InsertByPriority(SortByPriority(SubSeq(lst, 1, Len(lst) - 1), attrs),
                          lst[Len(lst)], attrs)

\* lines 333-341
StartedShow(show, now) ==
    [show EXCEPT !.ending = FALSE,
                 !.running = TRUE,
                 !.current_loop_number = 0,
                 !.next_step_time =
                     IF show.sync_ms # 0 THEN now + show.sync_ms \div 1000
                     ELSE now]

RunShowUnguarded(s) ==
    LET started == [shows EXCEPT ![s] = StartedShow(shows[s], current_tick_time)]
    IN /\ shows' = started
       /\ running_shows' = SortByPriority(Append(running_shows, s), started)
       /\ op' = [name |-> "_run_show", show |-> s]
       /\ calls' = <<>>
       /\ UNCHANGED <<player_vars, shot, playlist_vars, external_vars, tick_vars, update_vars, device_vars, running_show_keys,
                      current_tick_time>>

\* lines 326-344
RunShow(s) ==
    IF InList(running_shows, s)
    THEN /\ op' = [name |-> "_run_show", show |-> s]
         /\ calls' = <<>>
         /\ UNCHANGED <<player_vars, shot, playlist_vars, external_vars, tick_vars, update_vars, device_vars, show_vars>>
    ELSE LET started ==
                 [shows EXCEPT ![s] = StartedShow(shows[s], current_tick_time)]
         IN /\ shows' = started
            /\ running_shows' =
                   SortByPriority(Append(running_shows, s), started)
            /\ op' = [name |-> "_run_show", show |-> s]
            /\ calls' = <<>>
            /\ UNCHANGED <<player_vars, shot, playlist_vars, external_vars, tick_vars, update_vars, device_vars, running_show_keys,
                           current_tick_time>>

\* ------------------------------------------------------------------------
\* _end_show and restore_lower_lights
\* ------------------------------------------------------------------------
RECURSIVE SetToSeq(_)
SetToSeq(S) ==
    IF S = {} THEN <<>>
    ELSE LET x == CHOOSE y \in S : TRUE IN <<x>> \o SetToSeq(S \ {x})

RestoreGateStrict(cache_priority, priority) ==
    cache_priority < priority

\* lines 417, 429: if light.cache['priority'] <= priority
RestoreGate(cache_priority, priority) ==
    cache_priority <= priority

\* lines 408-430: the devices of the show that get restore()
RestoredLights(show, cache) ==
    {d \in show.light_states : RestoreGate(cache[d], show.priority)}

RestoredLeds(show, cache) ==
    {d \in show.led_states : RestoreGate(cache[d], show.priority)}

ResyncGateNotHigher(other_priority, priority) ==
    other_priority <= priority

\* line 435: if other_show.priority < priority
ResyncGate(other_priority, priority) ==
    other_priority < priority

\* lines 434-436: the running shows that get resync(), in list order
ResyncedShows(lst, attrs, priority) ==
    SelectSeq(lst, LAMBDA x : ResyncGate(attrs[x].priority, priority))

\* lines 384-436, as the calls made; the order in which the devices of
\* show.light_states / show.led_states are visited is the dict's
RestoreLowerLights(show, lst, attrs) ==
    LET ls == SetToSeq(RestoredLights(show, light_cache))
        ds == SetToSeq(RestoredLeds(show, led_cache))
        rs == ResyncedShows(lst, attrs, show.priority)
    IN [i \in 1..Len(ls) |->
            Call("restore", ls[i], show.priority, light_cache[ls[i]])]
       \o [i \in 1..Len(ds) |->
            Call("restore", ds[i], show.priority, led_cache[ds[i]])]
       \o [i \in 1..Len(rs) |->
            Call("resync", rs[i], attrs[rs[i]].priority, show.priority)]

KeepsStoppedShow(lst, s) == lst

\* line 349: [x for x in self.running_shows if x != show]
WithoutShow(lst, s) == SelectSeq(lst, LAMBDA x : x # s)

\* lines 354-357
ThisReset(show, reset) ==
    IF reset = None THEN show.reset ELSE reset = "True"

\* lines 346-373
EndShow(s, reset) ==
    LET show == shows[s]
        remaining == WithoutShow(running_shows, s)
        lights == IF show.hold THEN {} ELSE RestoredLights(show, light_cache)
        leds == IF show.hold THEN {} ELSE RestoredLeds(show, led_cache)
    IN /\ running_shows' = remaining
       /\ light_state' = [d \in Lights |->
              IF d \in lights THEN light_cache[d] ELSE light_state[d]]
       /\ led_state' = [d \in Leds |->
              IF d \in leds THEN led_cache[d] ELSE led_state[d]]
       /\ shows' = [shows EXCEPT ![s] =
              [show EXCEPT !.running = FALSE,
                           !.current_step =
                               IF ThisReset(show, reset) THEN 0
                               ELSE show.current_step]]
       /\ running_show_keys' = [k \in Keys |->
              IF running_show_keys[k] = s THEN None ELSE running_show_keys[k]]
       /\ op' = [name |-> "_end_show", show |-> s, reset |-> reset]
       /\ calls' = (IF show.hold THEN <<>>
                    ELSE RestoreLowerLights(show, remaining, shows))
                   \o (IF show.callback # None
                       THEN <<Call("callback", s, show.priority, 0)>>
                       ELSE <<>>)
       /\ UNCHANGED <<player_vars, shot, playlist_vars, external_vars, tick_vars, update_vars, light_cache,
                      led_cache, current_tick_time>>

\* ------------------------------------------------------------------------
\* What Show.play(), Show.stop() and Show.tick() do to a show's attributes
\* ------------------------------------------------------------------------
StepNumbers == {0, 1}
LoopNumbers == {0, 1}

\* play(priority=..., hold=...) / stop(hold=...) store their arguments
ShowConfigure(s, priority, hold) ==
    /\ shows[s].priority # priority \/ shows[s].hold # hold
    /\ shows' = [shows EXCEPT ![s].priority = priority, ![s].hold = hold]
    /\ op' = [name |-> "configure", show |-> s]
    /\ calls' = <<>>
    /\ UNCHANGED <<player_vars, shot, playlist_vars, external_vars, tick_vars, update_vars, device_vars, running_shows,
                   running_show_keys, current_tick_time>>

\* tick() of a running show that is due moves it to another step
ShowAdvance(s, step, loop, ending) ==
    /\ shows[s].running
    /\ shows[s].next_step_time <= current_tick_time
    /\ shows' = [shows EXCEPT ![s].current_step = step,
                              ![s].current_loop_number = loop,
                              ![s].ending = ending,
                              ![s].next_step_time = current_tick_time + 1]
    /\ op' = [name |-> "tick", show |-> s]
    /\ calls' = <<>>
    /\ UNCHANGED <<player_vars, shot, playlist_vars, external_vars, tick_vars, update_vars, device_vars, running_shows,
                   running_show_keys, current_tick_time>>

\* line 454: the clock is read at the start of a frame
ClockTick ==
    /\ current_tick_time + 1 \in ClockTimes
    /\ current_tick_time' = current_tick_time + 1
    /\ op' = [name |-> "clock"]
    /\ calls' = <<>>
    /\ UNCHANGED <<player_vars, shot, playlist_vars, external_vars, tick_vars, update_vars, device_vars, shows, running_shows,
                   running_show_keys>>

Play == \E s \in Shows : RunShow(s)

Stop == \E s \in Shows, reset \in ResetArgs : EndShow(s, reset)

Configure ==
    \E s \in Shows, priority \in Priorities, hold \in BOOLEAN :
        ShowConfigure(s, priority, hold)

Advance ==
    \E s \in Shows, step \in StepNumbers, loop \in LoopNumbers,
       ending \in BOOLEAN :
        ShowAdvance(s, step, loop, ending)

\* ------------------------------------------------------------------------
\* Frame observers and the external show command queue
\* ------------------------------------------------------------------------
UpdateExternalShows == "_update_external_shows"

\* lines 443-444
register_tick_handler(handler) ==
    /\ pc = "idle"
    /\ registered_tick_handlers' = registered_tick_handlers \cup {handler}
    /\ op' = [name |-> "register_tick_handler", handler |-> handler]
    /\ calls' = <<>>
    /\ UNCHANGED <<player_vars, shot, playlist_vars, update_vars, device_vars, show_vars, tick_vars,
                   external_show_connected, external_show_command_queue,
                   running_external_show_keys>>

\* lines 446-448
deregister_tick_handler(handler) ==
    /\ pc = "idle"
    /\ registered_tick_handlers' = registered_tick_handlers \ {handler}
    /\ op' = [name |-> "deregister_tick_handler", handler |-> handler]
    /\ calls' = <<>>
    /\ UNCHANGED <<player_vars, shot, playlist_vars, update_vars, device_vars, show_vars, tick_vars,
                   external_show_connected, external_show_command_queue,
                   running_external_show_keys>>

\* Queue.put by the BCP worker thread; the model holds at most MaxBacklog
\* commands
Put(command) ==
    /\ Len(external_show_command_queue) < MaxBacklog
    /\ external_show_command_queue' =
           Append(external_show_command_queue, command)

\* lines 805-837, run by the BCP worker thread at any time
add_external_show_start_command_to_queue(name, priority, blend, leds, lights, flashers, gis, coils) ==
    /\ Put([cmd |-> "start", name |-> name, priority |-> priority,
            blend |-> blend, leds |-> leds, lights |-> lights,
            flashers |-> flashers, gis |-> gis, coils |-> coils])
    /\ registered_tick_handlers' =
           IF ~external_show_connected
           THEN registered_tick_handlers \cup {UpdateExternalShows}
           ELSE registered_tick_handlers
    /\ external_show_connected' = TRUE
    /\ UNCHANGED <<player_vars, shot, playlist_vars, update_vars, device_vars, show_vars, tick_vars,
                   running_external_show_keys, log_vars>>

\* lines 839-850
add_external_show_stop_command_to_queue(name) ==
    /\ Put([cmd |-> "stop", name |-> name])
    /\ UNCHANGED <<player_vars, shot, playlist_vars, update_vars, device_vars, show_vars, tick_vars,
                   registered_tick_handlers, external_show_connected,
                   running_external_show_keys, log_vars>>

\* lines 852-879
add_external_show_frame_command_to_queue(name, led_data, light_data, flasher_data, gi_data, coil_data, events) ==
    /\ Put([cmd |-> "frame", name |-> name, led_data |-> led_data,
            light_data |-> light_data, flasher_data |-> flasher_data,
            gi_data |-> gi_data, coil_data |-> coil_data, events |-> events])
    /\ UNCHANGED <<player_vars, shot, playlist_vars, update_vars, device_vars, show_vars, tick_vars,
                   registered_tick_handlers, external_show_connected,
                   running_external_show_keys, log_vars>>

\* the state a queued command works on; error is the exception a command
\* raised, queue the commands left in the queue
Machine(keys, led_list, lstate, dstate, log) ==
    [keys |-> keys, led_list |-> led_list, light_state |-> lstate,
     led_state |-> dstate, log |-> log, error |-> None, queue |-> <<>>]

\* lines 908-915 and 1330-1361: ExternalShow(...)
ProcessStart(m, c) ==
    IF c.name \in DOMAIN m.keys THEN m
    ELSE [m EXCEPT !.keys =
             (c.name :> [priority |-> c.priority, blend |-> c.blend,
                         leds |-> c.leds, lights |-> c.lights,
                         flashers |-> c.flashers, gis |-> c.gis,
                         coils |-> c.coils]) @@ m.keys]

\* lines 1390-1397: ExternalShow.stop()
RECURSIVE ExternalRestore(_, _, _, _, _)
ExternalRestore(devices, cache, priority, state, log) ==
    IF devices = <<>> THEN [state |-> state, log |-> log]
    ELSE LET d == Head(devices)
         IN IF cache[d] <= priority
            THEN ExternalRestore(Tail(devices), cache, priority,
                                 [state EXCEPT ![d] = cache[d]],
                                 Append(log, Call("restore", d, priority,
                                                  cache[d])))
            ELSE ExternalRestore(Tail(devices), cache, priority, state, log)

\* lines 924-928
ProcessStop(m, c) ==
    IF c.name \notin DOMAIN m.keys THEN m
    ELSE LET show == m.keys[c.name]
             leds == ExternalRestore(show.leds, led_cache, show.priority,
                                     m.led_state, m.log)
             lights == ExternalRestore(show.lights, light_cache,
                                       show.priority, m.light_state, leds.log)
         IN [m EXCEPT !.keys = [k \in DOMAIN m.keys \ {c.name} |-> m.keys[k]],
                      !.led_state = leds.state,
                      !.light_state = lights.state,
                      !.log = lights.log]

\* Util.chunker(l, n): l[0:n], l[n:2n], ... up to the end of l
RECURSIVE Chunker(_, _)
Chunker(l, n) ==
    IF l = <<>> THEN <<>>
    ELSE IF Len(l) <= n THEN <<l>>
    ELSE <<SubSeq(l, 1, n)>> \o Chunker(SubSeq(l, n + 1, Len(l)), n)

HexDigit == [c \in {"0", "f"} |-> IF c = "0" THEN 0 ELSE 15]

\* RGBColor.hex_to_rgb of six hexadecimal digits
HexToRgb(hex) ==
    <<16 * HexDigit[hex[1]] + HexDigit[hex[2]],
      16 * HexDigit[hex[3]] + HexDigit[hex[4]],
      16 * HexDigit[hex[5]] + HexDigit[hex[6]]>>

LedChunk == 6
LightChunk == 2

UpdateLedsSwapped(lst, leds, chunks, show) ==
    IF Len(leds) >= 2 /\ Len(chunks) >= 2
    THEN LedListAfterAdd(
             LedListAfterAdd(lst, leds[1], HexToRgb(chunks[2]), 0,
                             show.priority, show.blend),
             leds[2], HexToRgb(chunks[1]), 0, show.priority, show.blend)
    ELSE lst

\* lines 1363-1367: ExternalShow.update_leds, over zip(self.leds, chunks)
RECURSIVE ExternalUpdateLeds(_, _, _, _)
ExternalUpdateLeds(lst, leds, chunks, show) ==
    IF leds = <<>> \/ chunks = <<>> THEN lst
    ELSE ExternalUpdateLeds(
             LedListAfterAdd(lst, Head(leds), HexToRgb(Head(chunks)), 0,
                             show.priority, show.blend),
             Tail(leds), Tail(chunks), show)

\* the call of a method that ShowController does not define raises
\* AttributeError when the attribute is looked up
Raise(m, error) == [m EXCEPT !.error = error]

\* lines 1369-1373: the first pair of zip(self.lights, chunks) calls
\* show_controller._add_to_light_update_list, which does not exist
ExternalUpdateLights(m, show, data) ==
    IF show.lights = <<>> \/ Chunker(data, LightChunk) = <<>> THEN m
    ELSE Raise(m, "AttributeError")

\* lines 1375-1378: zip(self.lights, chunks), _add_to_gi_queue
ExternalUpdateGis(m, show, data) ==
    IF show.lights = <<>> \/ Chunker(data, LightChunk) = <<>> THEN m
    ELSE Raise(m, "AttributeError")

\* lines 1380-1383: zip(self.flashers, data); a character of the data is
\* true, whatever it is; _add_to_flasher_queue
ExternalUpdateFlashers(m, show, data) ==
    IF show.flashers = <<>> \/ data = <<>> THEN m
    ELSE Raise(m, "AttributeError")

\* lines 1385-1388: zip(self.coils, data), _add_to_coil_queue
ExternalUpdateCoils(m, show, data) ==
    IF show.coils = <<>> \/ data = <<>> THEN m
    ELSE Raise(m, "AttributeError")

\* one "if data: update(data)" of lines 964-977; an exception raised by an
\* earlier one ends the command
FrameStep(m, data, updated) ==
    IF m.error # None \/ data = <<>> THEN m ELSE updated

\* lines 961-981
ProcessFrame(m, c) ==
    IF c.name \notin DOMAIN m.keys THEN m
    ELSE LET show == m.keys[c.name]
             m1 == FrameStep(m, c.led_data,
                       [m EXCEPT !.led_list =
                           ExternalUpdateLeds(m.led_list, show.leds,
                               Chunker(c.led_data, LedChunk), show)])
             m2 == FrameStep(m1, c.light_data,
                       ExternalUpdateLights(m1, show, c.light_data))
             m3 == FrameStep(m2, c.flasher_data,
                       ExternalUpdateGis(m2, show, c.flasher_data))
             m4 == FrameStep(m3, c.gi_data,
                       ExternalUpdateFlashers(m3, show, c.gi_data))
             m5 == FrameStep(m4, c.coil_data,
                       ExternalUpdateCoils(m4, show, c.coil_data))
         IN FrameStep(m5, c.events, Raise(m5, "AttributeError"))

\* lines 886-888: while not queue.empty(): get and run
\* line 888: update_method(*args), logged as a call of the command, with the
\* priority of a start command and the length of a frame command's LED data
Apply(m, c) ==
    LET called == [m EXCEPT !.log = Append(m.log,
                      Call(c.cmd, c.name,
                           IF c.cmd = "start" THEN c.priority ELSE 0,
                           IF c.cmd = "frame" THEN Len(c.led_data) ELSE 0))]
    IN IF c.cmd = "start" THEN ProcessStart(called, c)
       ELSE IF c.cmd = "stop" THEN ProcessStop(called, c)
       ELSE ProcessFrame(called, c)

\* the queue handing out the newest command first
RECURSIVE DrainNewestFirst(_, _)
DrainNewestFirst(pending, m) ==
    IF pending = <<>> \/ m.error # None THEN [m EXCEPT !.queue = pending]
    ELSE DrainNewestFirst(SubSeq(pending, 1, Len(pending) - 1),
                          Apply(m, pending[Len(pending)]))

\* lines 886-888: while not pending.empty(): get and run; an exception
\* leaves the loop with the later commands still queued
RECURSIVE Drain(_, _)
Drain(pending, m) ==
    IF pending = <<>> \/ m.error # None THEN [m EXCEPT !.queue = pending]
    ELSE Drain(Tail(pending), Apply(m, Head(pending)))

\* ------------------------------------------------------------------------
\* _tick, step by step
\* ------------------------------------------------------------------------
\* the for loop of line 457 holds the list object that running_shows named
\* when the loop began and an index into it: while running_shows still names
\* that object (live) the loop sees what is done to running_shows; list is
\* what the object held when running_shows was bound to a new list
IteratedLive == [live |-> TRUE, list |-> <<>>]

IteratedShows == IF iterated.live THEN running_shows ELSE iterated.list

\* line 454
TickBegin ==
    /\ pc = "idle"
    /\ \E now \in ClockTimes :
        now >= current_tick_time /\ current_tick_time' = now
    /\ pc' = "shows"
    /\ tick_i' = 1
    /\ iterated' = IteratedLive
    /\ op' = [name |-> "_tick", running_shows |-> running_shows]
    /\ calls' = <<>>
    /\ UNCHANGED <<player_vars, shot, playlist_vars, update_vars, device_vars, shows,
                   running_shows, running_show_keys, external_vars,
                   handlers_left, iter_size>>

\* lines 457-458: show.tick(); a show that is due may hand an LED of its
\* step to add_to_led_update_list
TickShow ==
    /\ pc = "shows"
    /\ tick_i <= Len(IteratedShows)
    /\ LET s == IteratedShows[tick_i]
       IN /\ \/ UNCHANGED led_update_list
             \/ \E led \in shows[s].led_states, color \in Colors :
                  LET new == LedListAfterAdd(led_update_list, led, color, 0,
                                             shows[s].priority, FALSE)
                  IN /\ RoomFor(light_update_list, new)
                     /\ led_update_list' = new
          /\ calls' = Append(calls, Call("tick", s, shows[s].priority, 0))
    /\ tick_i' = tick_i + 1
    /\ UNCHANGED <<player_vars, shot, playlist_vars, light_update_list, device_vars, show_vars,
                   external_vars, pc, handlers_left, iter_size, iterated, op>>

TickHandlersBeginAfterFlush ==
    /\ pc = "shows"
    /\ tick_i > Len(IteratedShows)
    /\ pc' = "handlers"
    /\ handlers_left' = registered_tick_handlers
    /\ iter_size' = Cardinality(registered_tick_handlers)
    /\ iterated' = IteratedLive
    /\ LET lights == UpdateLights(light_update_list, light_state)
           leds == UpdateLeds(led_update_list, led_state)
       IN /\ light_state' = lights.state
          /\ led_state' = leds.state
          /\ light_update_list' = <<>>
          /\ led_update_list' = <<>>
          /\ calls' = Append(calls, Call("_do_update", "", 0, 0))
                        \o lights.log \o leds.log
    /\ UNCHANGED <<player_vars, shot, playlist_vars, light_cache, led_cache, show_vars, external_vars,
                   tick_i, op>>

\* line 460: the iterator over the set of handlers is made
TickHandlersBegin ==
    /\ pc = "shows"
    /\ tick_i > Len(IteratedShows)
    /\ pc' = "handlers"
    /\ handlers_left' = registered_tick_handlers
    /\ iter_size' = Cardinality(registered_tick_handlers)
    /\ iterated' = IteratedLive
    /\ UNCHANGED <<player_vars, shot, playlist_vars, update_vars, device_vars, show_vars, external_vars,
                   tick_i, log_vars>>

\* line 460: the set iterator raises RuntimeError when the set has changed
\* size since the iterator was made; nothing in _tick catches it
TickRaise ==
    /\ pc = "handlers"
    /\ Cardinality(registered_tick_handlers) # iter_size
    /\ pc' = "raised"
    /\ calls' = Append(calls, Call("raise", "RuntimeError", 0, 0))
    /\ UNCHANGED <<player_vars, shot, playlist_vars, update_vars, device_vars, show_vars, external_vars,
                   tick_i, handlers_left, iter_size, iterated, op>>

\* lines 460-461 and 881-888: handler(), in the set's order
TickHandler ==
    /\ pc = "handlers"
    /\ Cardinality(registered_tick_handlers) = iter_size
    /\ \E handler \in handlers_left :
        /\ handlers_left' = handlers_left \ {handler}
        /\ IF handler = UpdateExternalShows
           THEN LET m == Drain(external_show_command_queue,
                               Machine(running_external_show_keys,
                                       led_update_list, light_state,
                                       led_state, <<>>))
                IN /\ RoomFor(light_update_list, m.led_list)
                   /\ external_show_command_queue' = m.queue
                   /\ running_external_show_keys' = m.keys
                   /\ led_update_list' = m.led_list
                   /\ light_state' = m.light_state
                   /\ led_state' = m.led_state
                   /\ calls' = Append(calls, Call("handler", handler, 0, 0))
                                 \o m.log
                                 \o (IF m.error = None THEN <<>>
                                     ELSE <<Call("raise", m.error, 0, 0)>>)
                   /\ pc' = IF m.error = None THEN pc ELSE "raised"
           ELSE /\ calls' = Append(calls, Call("handler", handler, 0, 0))
                /\ UNCHANGED <<external_show_command_queue,
                               running_external_show_keys, led_update_list,
                               light_state, led_state, pc>>
    /\ UNCHANGED <<player_vars, shot, playlist_vars, light_update_list, light_cache, led_cache, show_vars,
                   registered_tick_handlers, external_show_connected,
                   tick_i, iter_size, iterated, op>>

\* line 484: _do_update() ends the frame
TickDoUpdate ==
    /\ pc = "handlers"
    /\ Cardinality(registered_tick_handlers) = iter_size
    /\ handlers_left = {}
    /\ LET lights == UpdateLights(light_update_list, light_state)
           leds == UpdateLeds(led_update_list, led_state)
       IN /\ light_state' = lights.state
          /\ led_state' = leds.state
          /\ light_update_list' = <<>>
          /\ led_update_list' = <<>>
          /\ calls' = Append(calls, Call("_do_update", "", 0, 0))
                        \o lights.log \o leds.log
    /\ pc' = "idle"
    /\ UNCHANGED <<player_vars, shot, playlist_vars, light_cache, led_cache, show_vars, external_vars,
                   tick_i, handlers_left, iter_size, iterated, op>>

\* the callables a frame observer may itself pass to register_tick_handler
\* or deregister_tick_handler while it runs
ObserverPool == {"h1", "h2"}

\* lines 460-461 with 443-448: handler() runs and, inside its call, registers
\* or deregisters a handler; the set the for loop iterates is the one changed
TickHandlerMutates ==
    /\ pc = "handlers"
    /\ Cardinality(registered_tick_handlers) = iter_size
    /\ \E handler \in handlers_left \ {UpdateExternalShows},
          target \in ObserverPool, fn \in {"register", "deregister"} :
        /\ handlers_left' = handlers_left \ {handler}
        /\ registered_tick_handlers' =
               IF fn = "register"
               THEN registered_tick_handlers \cup {target}
               ELSE registered_tick_handlers \ {target}
        /\ calls' = calls \o <<Call("handler", handler, 0, 0),
                                Call(fn, target, 0, 0)>>
    /\ UNCHANGED <<player_vars, shot, playlist_vars, update_vars, device_vars, show_vars,
                   external_show_connected, external_show_command_queue,
                   running_external_show_keys, pc, tick_i, iter_size, iterated, op>>

RegisterAny == \E handler \in ObserverPool : register_tick_handler(handler)

DeregisterAny == \E handler \in ObserverPool : deregister_tick_handler(handler)

Register == \E handler \in Observers : register_tick_handler(handler)

Deregister == \E handler \in Observers : deregister_tick_handler(handler)

ExternalLeds == <<"d1", "d2">>
ExternalLights == <<"l1">>
ExternalFlashers == <<"f1">>
ExternalGis == <<"g1">>
ExternalCoils == <<"c1">>

\* frame data: strings, as sequences of characters
Red == <<"f", "f", "0", "0", "0", "0">>
Blue == <<"0", "0", "0", "0", "f", "f">>
LedData == {Red, Red \o Blue, Red \o Blue \o Red}
NoData == <<>>

Frame(led_data, light_data, flasher_data, gi_data, coil_data, events) ==
    [led_data |-> led_data, light_data |-> light_data,
     flasher_data |-> flasher_data, gi_data |-> gi_data,
     coil_data |-> coil_data, events |-> events]

LedFrames == {Frame(d, NoData, NoData, NoData, NoData, NoData) : d \in LedData}

OtherFrames ==
    {Frame(NoData, <<"f", "f">>, NoData, NoData, NoData, NoData),
     Frame(NoData, NoData, <<"1">>, NoData, NoData, NoData),
     Frame(NoData, NoData, NoData, <<"f", "f">>, NoData, NoData),
     Frame(NoData, NoData, NoData, NoData, <<"1">>, NoData),
     Frame(NoData, NoData, NoData, NoData, NoData, <<"ev">>)}

QueueFrame(name, f) ==
    add_external_show_frame_command_to_queue(
        name, f.led_data, f.light_data, f.flasher_data, f.gi_data,
        f.coil_data, f.events)

StartWith(priorities) ==
    \E name \in ExternalNames, priority \in priorities :
        add_external_show_start_command_to_queue(
            name, priority, TRUE, ExternalLeds, ExternalLights,
            ExternalFlashers, ExternalGis, ExternalCoils)

FrameWith(frames) == \E name \in ExternalNames, f \in frames : QueueFrame(name, f)

\* the worker thread receiving BCP commands back to back
WorkerStart == StartWith(Priorities)

WorkerStop ==
    \E name \in ExternalNames : add_external_show_stop_command_to_queue(name)

WorkerFrame == FrameWith({f \in LedFrames : Len(f.led_data) <= 2 * LedChunk})

\* the worker thread receiving a command when fewer than MaxQueue wait
QueueShort == Len(external_show_command_queue) < MaxQueue

\* commands of every kind, for shows of every priority
SlowStart == QueueShort /\ WorkerStart

SlowStop == QueueShort /\ WorkerStop

SlowLedFrame == QueueShort /\ FrameWith(LedFrames)

SlowOtherFrame == QueueShort /\ FrameWith(OtherFrames)

\* the commands of one show among the shows and observers of the machine
ExternalStart == QueueShort /\ StartWith({0})

ExternalStop == SlowStop

ExternalFrame ==
    QueueShort /\ FrameWith({f \in LedFrames : Len(f.led_data) <= LedChunk})

\* the worker thread receiving commands between two frames only
IdleStart == pc = "idle" /\ WorkerStart

IdleStopCommand == pc = "idle" /\ WorkerStop

IdleFrame == pc = "idle" /\ WorkerFrame

IdlePlay == pc = "idle" /\ Play

IdleStop == pc = "idle" /\ \E s \in Shows : EndShow(s, None)

\* ------------------------------------------------------------------------
\* Playlist
\* ------------------------------------------------------------------------
MaxActions == 3
MaxRepeat == 2
MaxPlayed == 4

StepNums == {1, 2, 3}
\* a step that lasts five seconds, and a step that lasts as long as show s1
TimedStep == [time |-> 5, trigger_show |-> None, hold |-> FALSE]
TriggerStep == [time |-> 0, trigger_show |-> "s1", hold |-> FALSE]

\* lines 1045-1063
NewPlaylist ==
    [step_settings_dic |-> <<>>, step_actions |-> <<>>, steps |-> <<>>,
     current_step_position |-> 0, repeat |-> FALSE, repeat_count |-> 0,
     current_repeat_loop |-> 0, running |-> FALSE, priority |-> 0,
     starting |-> FALSE, stopping |-> FALSE]

Range(seq) == {seq[i] : i \in 1..Len(seq)}

\* list.sort() of a list of distinct integers
RECURSIVE SortSet(_)
SortSet(S) ==
    IF S = {} THEN <<>>
    ELSE LET least == CHOOSE x \in S : \A y \in S : x <= y
         IN <<least>> \o SortSet(S \ {least})

StepsAppended(steps, step_num) == Append(steps, step_num)

\* lines 1117-1121: append, list(set(...)), sort()
StepsAfterAdd(steps, step_num) == SortSet(Range(Append(steps, step_num)))

ActionMatchesStep(step, step_num, show) == step.step_num = step_num

\* line 1105
ActionMatches(step, step_num, show) ==
    step.step_num = step_num /\ step.show = show

\* lines 1101-1106: the loop runs over a copy, the removals hit the list
RECURSIVE RemoveMatching(_, _, _, _)
RemoveMatching(temp_steps, step_actions, step_num, show) ==
    IF temp_steps = <<>> THEN step_actions
    ELSE RemoveMatching(
             Tail(temp_steps),
             IF ActionMatches(Head(temp_steps), step_num, show)
             THEN ListRemove(step_actions, Head(temp_steps))
             ELSE step_actions,
             step_num, show)

\* lines 1066-1121
add_show(pl, step_num, show, loops, tocks_per_sec, blend, repeat) ==
    [pl EXCEPT
        !.step_actions =
            Append(RemoveMatching(pl.step_actions, pl.step_actions,
                                  step_num, show),
                   [step_num |-> step_num, show |-> show, loops |-> loops,
                    tocks_per_sec |-> tocks_per_sec, repeat |-> repeat,
                    blend |-> blend]),
        !.steps = StepsAfterAdd(pl.steps, step_num)]

\* lines 1123-1150
step_settings(pl, step, time, trigger_show, hold) ==
    [pl EXCEPT !.step_settings_dic =
        (step :> [time |-> time, trigger_show |-> trigger_show,
                  hold |-> hold]) @@ pl.step_settings_dic]

\* what the methods of the playlist work on: the playlist, the shows and the
\* running set, the devices a stopping show restores, the calls made so far
\* and the exception raised, if any
World ==
    [pl |-> playlist, shows |-> shows, running_shows |-> running_shows,
     light_state |-> light_state, led_state |-> led_state,
     keys |-> running_show_keys, queue |-> queue, played |-> played,
     iterated |-> iterated, log |-> <<>>, error |-> None]

\* the call show.play(priority=..., loops=..., callback=...) of lines
\* 1293-1297
PlayCall(s, priority, loops, callback) ==
    [fn |-> "play", device |-> s, priority |-> priority, seen |-> 0,
     loops |-> loops, callback |-> callback]

\* Show.play(): stores its arguments and enters the running set (lines
\* 326-344)
ShowPlay(w, s, priority, loops, hold, callback) ==
    LET configured == [w.shows EXCEPT ![s].priority = priority,
                                      ![s].hold = hold,
                                      ![s].callback = callback]
        started == [configured EXCEPT
                       ![s] = StartedShow(configured[s], current_tick_time)]
        logged == Append(w.log, PlayCall(s, priority, loops, callback))
    IN IF InList(w.running_shows, s)
       THEN [w EXCEPT !.shows = configured, !.log = logged]
       ELSE [w EXCEPT !.shows = started,
                      !.running_shows =
                          SortByPriority(Append(w.running_shows, s), started),
                      !.log = logged]

\* line 349 binds running_shows to a new list: the loop of _tick, if it
\* runs, keeps the list object it began with, as that object is now
Rebound(it, lst) ==
    IF pc = "shows" /\ it.live THEN [live |-> FALSE, list |-> lst] ELSE it

RECURSIVE playlist_advance(_)

\* lines 346-373 on the world; a callback that is the playlist's _advance
\* runs inside the call
EndShowIn(w, s) ==
    LET show == w.shows[s]
        lights == IF show.hold THEN {} ELSE RestoredLights(show, light_cache)
        leds == IF show.hold THEN {} ELSE RestoredLeds(show, led_cache)
        ended ==
            [w EXCEPT
                !.iterated = Rebound(w.iterated, w.running_shows),
                !.running_shows = WithoutShow(w.running_shows, s),
                !.light_state = [d \in Lights |->
                    IF d \in lights THEN light_cache[d] ELSE w.light_state[d]],
                !.led_state = [d \in Leds |->
                    IF d \in leds THEN led_cache[d] ELSE w.led_state[d]],
                !.shows = [w.shows EXCEPT ![s] =
                    [show EXCEPT !.running = FALSE,
                                 !.current_step =
                                     IF show.reset THEN 0
                                     ELSE show.current_step]],
                !.keys = [k \in Keys |->
                    IF w.keys[k] = s THEN None ELSE w.keys[k]],
                !.log = Append(w.log, Call("stop", s, show.priority, 0))]
    IN IF show.callback = "_advance" THEN playlist_advance(ended)
       ELSE IF show.callback # None
            THEN [ended EXCEPT !.log =
                     Append(ended.log, Call("callback", s, show.priority, 0))]
            ELSE ended

\* Show.stop(hold=...): nothing for a show that is not running; otherwise
\* stores hold when given and ends the show
ShowStop(w, s, hold) ==
    IF ~w.shows[s].running THEN w
    ELSE EndShowIn(IF hold = None THEN w
                   ELSE [w EXCEPT !.shows[s].hold = (hold = "True")], s)

\* lines 1247-1254: stop the running shows of the previous step
RECURSIVE StopPreviousStep(_, _, _)
StopPreviousStep(w, actions, prev_step) ==
    IF actions = <<>> \/ w.error # None THEN w
    ELSE LET action == Head(actions)
         IN StopPreviousStep(
                IF action.step_num = prev_step
                   /\ InList(w.running_shows, action.show)
                THEN ShowStop(w, action.show, None)
                ELSE w,
                Tail(actions), prev_step)

TriggerLoopsKept(loops) == loops

\* lines 1283-1288
TriggerLoops(loops) == IF loops = 0 THEN 1 ELSE loops

\* lines 1270-1297: play the shows of the current step; loops is 1 for a
\* trigger show that was to loop for ever
RECURSIVE PlayStep(_, _, _, _)
PlayStep(w, actions, current_step_value, settings) ==
    IF actions = <<>> THEN w
    ELSE LET action == Head(actions)
         IN PlayStep(
                IF action.step_num = current_step_value
                THEN ShowPlay(w, action.show, w.pl.priority,
                              IF action.show = settings.trigger_show
                              THEN TriggerLoops(action.loops)
                              ELSE action.loops,
                              settings.hold,
                              IF action.show = settings.trigger_show
                              THEN "_advance" ELSE None)
                ELSE w,
                Tail(actions), current_step_value, settings)

PositionAdvancedOneLoopMore(pl) ==
    IF pl.current_step_position = Len(pl.steps) - 1
    THEN IF pl.repeat /\ (pl.repeat_count = 0
                          \/ pl.current_repeat_loop < pl.repeat_count)
         THEN [pl EXCEPT !.current_step_position = 0,
                         !.current_repeat_loop = @ + 1]
         ELSE [pl EXCEPT !.current_step_position = 0, !.stopping = TRUE]
    ELSE [pl EXCEPT !.current_step_position = @ + 1]

\* lines 1306-1326
PositionAdvanced(pl) ==
    IF pl.current_step_position = Len(pl.steps) - 1
    THEN IF pl.repeat
         THEN IF pl.repeat_count # 0
              THEN IF pl.current_repeat_loop < pl.repeat_count - 1
                   THEN [pl EXCEPT !.current_step_position = 0,
                                   !.current_repeat_loop = @ + 1]
                   ELSE [pl EXCEPT !.current_step_position = 0,
                                   !.stopping = TRUE]
              ELSE [pl EXCEPT !.current_step_position = 0]
         ELSE [pl EXCEPT !.current_step_position = 0, !.stopping = TRUE]
    ELSE [pl EXCEPT !.current_step_position = @ + 1]

AdvanceNeverReturns(pl) == FALSE

\* line 1234
AdvanceReturns(pl) == ~pl.running

\* lines 1227-1326
playlist_advance(w) ==
    IF AdvanceReturns(w.pl) THEN w
    ELSE IF w.pl.current_step_position >= Len(w.pl.steps)
    THEN Raise(w, "IndexError")
    ELSE
      LET position == w.pl.current_step_position
          current_step_value == w.pl.steps[position + 1]
          prev_step == w.pl.steps[IF position = 0 THEN Len(w.pl.steps)
                                  ELSE position]
          stopped == IF w.pl.starting THEN w
                     ELSE StopPreviousStep(w, w.pl.step_actions, prev_step)
          started == [stopped EXCEPT !.pl.starting = FALSE]
      IN IF stopped.error # None THEN stopped
         ELSE IF started.pl.stopping THEN started
         ELSE IF current_step_value \notin DOMAIN started.pl.step_settings_dic
         THEN Raise(started, "KeyError")
         ELSE
           LET settings == started.pl.step_settings_dic[current_step_value]
               playing == PlayStep(started, started.pl.step_actions,
                                   current_step_value, settings)
               shown == [playing EXCEPT
                            !.played = Append(@, current_step_value)]
           IN IF settings.time # 0 /\ settings.trigger_show = None
              \* line 1304: show_controller has no attribute current_time
              THEN Raise(shown, "AttributeError")
              ELSE [shown EXCEPT !.pl = PositionAdvanced(shown.pl)]

\* lines 1220-1222: "for item in queue: if item['playlist'] == self:
\* queue.remove(item)", on the live list: the loop goes on at the next index
\* of the list as the removal left it
RECURSIVE QueueRemoveLoop(_, _)
QueueRemoveLoop(lst, i) ==
    IF i > Len(lst) THEN lst
    ELSE QueueRemoveLoop(IF lst[i].playlist = "self"
                         THEN ListRemove(lst, lst[i]) ELSE lst,
                         i + 1)

\* lines 1212-1218: stop the shows of the step before the position
RECURSIVE StopCurrentStep(_, _, _)
StopCurrentStep(w, actions, hold) ==
    IF actions = <<>> THEN w
    ELSE LET action == Head(actions)
             position == w.pl.current_step_position
             step == w.pl.steps[IF position = 0 THEN Len(w.pl.steps)
                                ELSE position]
         IN StopCurrentStep(
                IF action.step_num = step THEN ShowStop(w, action.show, hold)
                ELSE w,
                Tail(actions), hold)

\* lines 1197-1225
playlist_stop(w, reset, hold) ==
    LET halted == [w EXCEPT !.pl.running = FALSE]
        stopped == StopCurrentStep(halted, halted.pl.step_actions, hold)
        cleared == [stopped EXCEPT !.queue = QueueRemoveLoop(stopped.queue, 1)]
    IN IF reset
       THEN [cleared EXCEPT !.pl.current_step_position = 0,
                            !.pl.current_repeat_loop = 0,
                            !.played = <<>>]
       ELSE cleared

\* lines 1176-1186: the playlist was not running
StartStopped(w, priority, repeat, repeat_count, reset) ==
    LET rewound == IF reset
                   THEN [w EXCEPT !.pl.current_step_position = 0,
                                  !.pl.current_repeat_loop = 0,
                                  !.played = <<>>]
                   ELSE w
    IN playlist_advance(
           [rewound EXCEPT !.pl.running = TRUE,
                           !.pl.starting = TRUE,
                           !.pl.stopping = FALSE,
                           !.pl.repeat = repeat,
                           !.pl.repeat_count = repeat_count,
                           !.pl.priority = priority])

StartIgnoredWhenRunning(w, priority, repeat, repeat_count, reset) ==
    IF ~w.pl.running
    THEN StartStopped(w, priority, repeat, repeat_count, reset)
    ELSE w

\* lines 1152-1195
playlist_start(w, priority, repeat, repeat_count, reset) ==
    IF ~w.pl.running
    THEN StartStopped(w, priority, repeat, repeat_count, reset)
    ELSE IF reset
         THEN StartStopped(playlist_stop(w, TRUE, None), priority, repeat,
                           repeat_count, TRUE)
         ELSE w

\* the world after a call becomes the state; an exception leaves what the
\* call had done before it was raised; the model follows a playlist for
\* MaxPlayed steps
CommitWorld(w, call) ==
    /\ Len(w.played) <= MaxPlayed
    /\ playlist' = w.pl
    /\ shows' = w.shows
    /\ running_shows' = w.running_shows
    /\ light_state' = w.light_state
    /\ led_state' = w.led_state
    /\ running_show_keys' = w.keys
    /\ queue' = w.queue
    /\ played' = w.played
    /\ op' = call
    /\ calls' = IF w.error = None THEN w.log
                ELSE Append(w.log, Call("raise", w.error, 0, 0))
    /\ iterated' = w.iterated
    /\ UNCHANGED <<shot, update_vars, light_cache, led_cache,
                   current_tick_time, external_vars, pc, tick_i,
                   handlers_left, iter_size>>

Commit(w, call) == CommitWorld(w, call) /\ UNCHANGED player_vars

\* add_show and step_settings, by the code that builds the playlist; the
\* model keeps at most MaxActions step actions
AddShowIn(step_nums, step_shows, loop_counts) ==
    \E step_num \in step_nums, show \in step_shows, loops \in loop_counts :
        LET pl == add_show(playlist, step_num, show, loops, 32, FALSE, TRUE)
        IN /\ Len(pl.step_actions) <= MaxActions
           /\ Commit([World EXCEPT !.pl = pl],
                     [name |-> "add_show", step_num |-> step_num,
                      show |-> show, loops |-> loops,
                      replaced |-> Len(playlist.step_actions) + 1
                                       - Len(pl.step_actions)])

AddShowWith(step_shows, loop_counts) ==
    AddShowIn(StepNums, step_shows, loop_counts)

StepSettingsIn(step_nums, kinds) ==
    \E step \in step_nums, kind \in kinds :
        /\ IF step \in DOMAIN playlist.step_settings_dic
           THEN playlist.step_settings_dic[step] # kind
           ELSE TRUE
        /\ Commit([World EXCEPT !.pl =
               step_settings(playlist, step, kind.time, kind.trigger_show,
                             kind.hold)],
               [name |-> "step_settings"])

StepSettingsWith(kinds) == StepSettingsIn(StepNums, kinds)

StepSettings == StepSettingsWith({TriggerStep})

AddShow == AddShowWith({"s1"}, {1})

\* start(repeat=False) with the default repeat_count, start(repeat=True)
\* with any
RepeatModes ==
    {[repeat |-> FALSE, repeat_count |-> 0]}
        \cup {[repeat |-> TRUE, repeat_count |-> n] : n \in 0..MaxRepeat}

StartCall(priorities, modes, resets) ==
    \E priority \in priorities, mode \in modes, reset \in resets :
        Commit(playlist_start(World, priority, mode.repeat,
                              mode.repeat_count, reset),
               [name |-> "start", priority |-> priority,
                repeat |-> mode.repeat, repeat_count |-> mode.repeat_count,
                reset |-> reset])

StartWithReset(resets) == StartCall({0}, RepeatModes, resets)

StartPlaylist ==
    StartCall({0},
              {mode \in RepeatModes : mode.repeat_count \in {0, MaxRepeat}},
              BOOLEAN)

StopCall(holds) ==
    \E reset \in BOOLEAN, hold \in holds :
        Commit(playlist_stop(World, reset, hold),
               [name |-> "stop", reset |-> reset, hold |-> hold])

StopPlaylist == StopCall({None})

\* _advance called by a deferred action or by a callback that is still held
AdvancePlaylist == Commit(playlist_advance(World), [name |-> "_advance"])

\* a running show reaches its end: Show.stop() and, through _end_show, the
\* callback it was played with
ShowEnds ==
    \E s \in Shows :
        /\ shows[s].running
        /\ Commit(ShowStop(World, s, None), [name |-> "show_ends"])

\* the playlist used as documented: built while it is stopped, started from
\* its beginning, advanced by the end of its trigger shows; _advance is
\* called from elsewhere only once the playlist is stopping or stopped
BuildShow == ~playlist.running /\ AddShowWith({"s1"}, {1})

BuildSettings ==
    ~playlist.running /\ StepSettingsWith({TimedStep, TriggerStep})

StartFromBeginning == StartWithReset({TRUE})

LateAdvance ==
    /\ IF playlist.running THEN playlist.stopping ELSE TRUE
    /\ AdvancePlaylist

\* the deferred actions of lines 1302-1304, of this playlist and of another
MaxDeferred == 2

Deferred == {[playlist |-> p, action_time |-> 5] : p \in {"self", "other"}}

RECURSIVE SeqsUpTo(_, _)
SeqsUpTo(S, n) ==
    IF n = 0 THEN {<<>>}
    ELSE SeqsUpTo(S, n - 1)
             \cup {Append(q, x) : q \in SeqsUpTo(S, n - 1), x \in S}

DeferredQueues == SeqsUpTo(Deferred, MaxDeferred)

\* stop(reset, hold) with every hold
StopAny == StopCall({None, "True", "False"})

\* a playlist of two steps with either show in each, built before it is
\* first played, started and restarted at any priority
\* no show has been played yet
Unplayed == ~playlist.running /\ shows = [s \in Shows |-> NewShow(s)]

\* the shows of step 1 are to loop for ever, those of step 2 twice
BuildShows ==
    /\ Unplayed
    /\ \/ AddShowIn({1}, Shows, {0})
       \/ AddShowIn({2}, Shows, {2})

BuildStepSettings ==
    Unplayed /\ StepSettingsIn({1, 2}, {TimedStep, TriggerStep})

StartAny ==
    StartCall({0, MaxPriority},
              {mode \in RepeatModes :
                   mode.repeat_count = IF mode.repeat THEN MaxRepeat ELSE 0},
              BOOLEAN)

\* ------------------------------------------------------------------------
\* _tick while shows end, with their callbacks and the playlist
\* ------------------------------------------------------------------------
\* lines 457-458: show.tick() of a running show that has played its last
\* step ends the show; _end_show calls its callback, which may be the
\* playlist's _advance, stopping and playing other shows
TickShowEnds ==
    /\ pc = "shows"
    /\ tick_i <= Len(IteratedShows)
    /\ LET s == IteratedShows[tick_i]
           ticked == [World EXCEPT !.log =
                         Append(calls, Call("tick", s, shows[s].priority, 0))]
           w == ShowStop(ticked, s, None)
       IN /\ shows[s].running
          /\ Len(w.played) <= MaxPlayed
          /\ playlist' = w.pl
          /\ shows' = w.shows
          /\ running_shows' = w.running_shows
          /\ light_state' = w.light_state
          /\ led_state' = w.led_state
          /\ running_show_keys' = w.keys
          /\ queue' = w.queue
          /\ played' = w.played
          /\ iterated' = w.iterated
          /\ calls' = IF w.error = None THEN w.log
                      ELSE Append(w.log, Call("raise", w.error, 0, 0))
          /\ pc' = IF w.error = None THEN pc ELSE "raised"
    /\ tick_i' = tick_i + 1
    /\ UNCHANGED <<player_vars, shot, update_vars, light_cache, led_cache,
                   current_tick_time, external_vars, handlers_left,
                   iter_size, op>>

\* show.tick() of a show that hands no LED to the update list
TickShowQuiet == TickShow /\ UNCHANGED led_update_list

\* the playlist is built and started between two frames
IdleBuildShows == pc = "idle" /\ Unplayed /\ AddShowIn({1, 2}, Shows, {0})

IdleBuildStepSettings ==
    pc = "idle" /\ Unplayed /\ StepSettingsIn({1, 2}, {TimedStep, TriggerStep})

\* every step of the playlist has its settings
StepsSet ==
    \A i \in 1..Len(playlist.steps) :
        playlist.steps[i] \in DOMAIN playlist.step_settings_dic

IdleStartPlaylist ==
    /\ pc = "idle"
    /\ StepsSet
    /\ StartCall({0}, {[repeat |-> TRUE, repeat_count |-> 0]}, {TRUE})

\* ------------------------------------------------------------------------
\* Shot (src/mpf/devices/shot.py)
\* ------------------------------------------------------------------------
NumStates == 3
ModePriority == 1

\* the values a caller passes to jump(state): every index of the profile,
\* one below and one above
JumpTargets == (0 - 1)..NumStates

\* the switches of config['delay_switch']
DelaySwitches == {"d1"}

\* no running show: self.running_show = None (line 39)
NoShow == [show |-> None, manual_advance |-> FALSE, current_step_index |-> 0]

\* config['profile'].config['states']: no state has a show; every state has
\* a show of its own; every state is a step of one manually advanced show
StateSettings(name, show, manual_advance, start_step) ==
    [name |-> name, show |-> show, manual_advance |-> manual_advance,
     start_step |-> start_step, priority |-> 0]

StateNames == <<"unlit", "lit", "flashing", "complete", "done">>

StatesWithoutShow ==
    [i \in 1..NumStates |-> StateSettings(StateNames[i], None, None, 1)]

StatesWithOwnShow ==
    [i \in 1..NumStates |->
        StateSettings(StateNames[i], IF i % 2 = 1 THEN "on" ELSE "flash",
                      None, 1)]

StatesOfOneShow ==
    [i \in 1..NumStates |-> StateSettings(StateNames[i], "on", "True", i)]

\* config['profile'].name: a name of its own, or one that a state has too
ProfileNames == {"default", "lit"}

\* config['profile'] of the shot: its name and its config
Profiles ==
    [name : ProfileNames,
     states : {StatesWithoutShow, StatesWithOwnShow, StatesOfOneShow},
     show : {None, "rainbow"},
     loop : BOOLEAN,
     advance_on_hit : BOOLEAN,
     show_when_disabled : BOOLEAN]

\* the shot has no profile before its config is loaded
NoProfile ==
    [name |-> None, states |-> <<>>, show |-> None, loop |-> FALSE,
     advance_on_hit |-> FALSE, show_when_disabled |-> FALSE]

\* lines 28-40; player["shot_<name>"] is 0 until it is set, the config is
\* that of the mode the shot is loaded in
NewShot ==
    [profile |-> NoProfile, loaded |-> FALSE, enabled |-> FALSE, state |-> 0,
     running_show |-> NoShow, active_delays |-> {}, timers |-> {}]

\* what a method of the shot works on: the shot, the calls made so far, the
\* exception raised, if any, and the value returned
ShotWorld == [sh |-> shot, log |-> <<>>, error |-> None, result |-> None]

ShotRaise(w, error) == [w EXCEPT !.error = error]

\* a call on a show or on the running show
ShowCall(fn, show, start_step, manual_advance, priority) ==
    [fn |-> fn, device |-> show, priority |-> priority, seen |-> 0,
     start_step |-> start_step, manual_advance |-> manual_advance]

\* self.machine.events.post(name, profile=, state=, advancing=)
PostCall(name, profile, state, advancing) ==
    [fn |-> "post", device |-> name, priority |-> 0, seen |-> 0,
     profile |-> profile, state |-> state, advancing |-> advancing]

\* states[i] of a Python list of n items: i counts from the end when it is
\* negative, IndexError when it is beyond either end
HasItem(states, i) == (0 - Len(states)) <= i /\ i < Len(states)

Item(states, i) == states[IF i < 0 THEN i + Len(states) + 1 ELSE i + 1]

\* lines 111-115
ShotStopShow(w) ==
    IF w.sh.running_show.show = None THEN w
    ELSE [w EXCEPT
             !.log = Append(@, ShowCall("stop", w.sh.running_show.show, 0,
                                        w.sh.running_show.manual_advance, 0)),
             !.sh.running_show = NoShow]

\* running_show.advance()
ShotAdvanceShow(w) ==
    [w EXCEPT
        !.log = Append(@, ShowCall("advance", w.sh.running_show.show, 0,
                                   w.sh.running_show.manual_advance, 0)),
        !.sh.running_show.current_step_index = @ + 1]

\* lines 207-230; start_step = 0 stands for start_step=None
ShotPlayShow(w, settings, start_step) ==
    LET show_name == IF settings.show # None THEN settings.show
                     ELSE w.sh.profile.show
        manual_advance ==
            IF settings.manual_advance = None THEN settings.show = None
            ELSE settings.manual_advance = "True"
        step == IF start_step # 0 THEN start_step ELSE settings.start_step
        priority == settings.priority + ModePriority
    IN [w EXCEPT
           !.log = Append(@, ShowCall("play", show_name, step, manual_advance,
                                      priority)),
           !.sh.running_show =
               [show |-> show_name, manual_advance |-> manual_advance,
                current_step_index |-> step - 1]]

UpdateStateShowRestarts(w, settings) ==
    ShotPlayShow(ShotStopShow(w), settings, 0)

\* lines 155-176: the state has a show
UpdateStateShow(w, settings) ==
    LET running == w.sh.running_show
    IN IF running.show = None THEN ShotPlayShow(w, settings, 0)
       ELSE IF /\ running.show = settings.show
               /\ running.manual_advance = (settings.manual_advance = "True")
            THEN IF /\ running.manual_advance
                    /\ running.current_step_index + 1 = settings.start_step
                 THEN w
                 ELSE IF /\ running.manual_advance
                         /\ running.current_step_index + 2
                                = settings.start_step
                      THEN ShotAdvanceShow(w)
                      ELSE IF ~running.manual_advance THEN w
                           ELSE ShotPlayShow(ShotStopShow(w), settings, 0)
            ELSE ShotPlayShow(ShotStopShow(w), settings, 0)

\* lines 178-201: the state has no show, the profile has one
UpdateProfileShow(w, settings) ==
    LET running == w.sh.running_show
        start_step == w.sh.state + 1
    IN IF running.show = None THEN ShotPlayShow(w, settings, start_step)
       ELSE IF running.show # w.sh.profile.show
            THEN ShotPlayShow(ShotStopShow(w), settings, start_step)
            ELSE IF running.current_step_index = settings.start_step - 1
                 THEN ShotAdvanceShow(w)
                 ELSE ShotPlayShow(ShotStopShow(w), settings, start_step)

ShownWhenDisabled(sh) == FALSE

\* line 148: a disabled shot whose profile does not show it
ShowHidden(sh) == ~sh.enabled /\ ~sh.profile.show_when_disabled

\* lines 147-205
ShotUpdateShow(w) ==
    IF ShowHidden(w.sh)
    THEN ShotStopShow(w)
    ELSE IF ~HasItem(w.sh.profile.states, w.sh.state)
    THEN ShotRaise(w, "IndexError")
    ELSE LET settings == Item(w.sh.profile.states, w.sh.state)
         IN IF settings.show # None THEN UpdateStateShow(w, settings)
            ELSE IF w.sh.profile.show # None
                 THEN UpdateProfileShow(w, settings)
                 ELSE w

\* return value: a call that raised returns nothing
Returned(w, value) == IF w.error # None THEN w ELSE [w EXCEPT !.result = value]

AtLastStateOffByOne(state, states) == state + 1 > Len(states)

\* line 97: the shot is in the last state of its profile
AtLastState(state, states) == state + 1 >= Len(states)

\* lines 78-109
ShotAdvance(w, force) ==
    IF ~w.sh.enabled /\ ~force THEN Returned(w, FALSE)
    ELSE IF AtLastState(w.sh.state, w.sh.profile.states)
    THEN IF w.sh.profile.loop
         THEN Returned(ShotUpdateShow([w EXCEPT !.sh.state = 0]), TRUE)
         ELSE Returned(w, FALSE)
    ELSE Returned(ShotUpdateShow([w EXCEPT !.sh.state = @ + 1]), TRUE)

ShotJumpUnguarded(w, state, force) ==
    IF state = w.sh.state THEN w
    ELSE ShotUpdateShow([w EXCEPT !.sh.state = state])

\* lines 369-397
ShotJump(w, state, force) ==
    IF ~w.sh.enabled /\ ~force THEN w
    ELSE IF state = w.sh.state THEN w
    ELSE ShotUpdateShow([w EXCEPT !.sh.state = state])

ShotResetUnforced(w) == ShotJump(w, 0, FALSE)

\* lines 399-405
ShotReset(w) == ShotJump(w, 0, TRUE)

\* the four names of lines 281, 294, 313 and 332: '{}_hit'.format(...),
\* '{}_{}_hit'.format(...), '{}_{}_{}_hit'.format(...)
HitEvents(shot_name, profile_name, state) ==
    <<shot_name \o "_hit",
      shot_name \o "_" \o profile_name \o "_hit",
      shot_name \o "_" \o profile_name \o "_" \o state \o "_hit",
      shot_name \o "_" \o state \o "_hit">>

\* lines 279-333: the four events of a hit
RECURSIVE PostAll(_, _, _, _, _)
PostAll(w, names, profile, state, advancing) ==
    IF names = <<>> THEN w
    ELSE PostAll([w EXCEPT !.log = Append(@, PostCall(Head(names), profile,
                                                     state, advancing))],
                 Tail(names), profile, state, advancing)

HitIgnoredWhenDisabled(sh) == ~sh.enabled

\* lines 255-260: the hit is not processed
HitIgnored(sh) == ~sh.enabled \/ sh.active_delays # {}

\* lines 243-333
ShotHit(w) ==
    LET marked == [w EXCEPT !.log =
                      Append(@, ShowCall("mark_playfield_active", None, 0,
                                         FALSE, 0))]
    IN IF HitIgnored(marked.sh) THEN marked
       ELSE IF ~HasItem(marked.sh.profile.states, marked.sh.state)
       THEN ShotRaise(marked, "IndexError")
       ELSE LET state == Item(marked.sh.profile.states, marked.sh.state).name
                advanced == IF marked.sh.profile.advance_on_hit
                            THEN ShotAdvance(marked, FALSE)
                            ELSE Returned(marked, FALSE)
            IN IF advanced.error # None THEN advanced
               ELSE Returned(PostAll(advanced,
                                     HitEvents("shot", marked.sh.profile.name,
                                               state),
                                     marked.sh.profile.name, state,
                                     advanced.result), None)

\* lines 67-76: self.delay.clear() and the switch handlers removed
RemoveSwitchHandlers(w) == [w EXCEPT !.sh.timers = {}]

\* EnableDisableMixin.enable(): sets enabled and calls _enable (lines
\* 407-410) unless the shot is enabled already
ShotEnable(w) ==
    IF w.sh.enabled THEN w
    ELSE ShotUpdateShow([w EXCEPT !.sh.enabled = TRUE])

\* EnableDisableMixin.disable(): clears enabled and calls _disable (lines
\* 412-415) unless the shot is disabled already
ShotDisable(w) ==
    IF ~w.sh.enabled THEN w
    ELSE ShotUpdateShow(RemoveSwitchHandlers([w EXCEPT !.sh.enabled = FALSE]))

\* lines 42-51: the mixin enables the shot or not, as its config says
ShotLoadedInMode(w, profile, enable) ==
    LET loaded == [w EXCEPT !.sh.loaded = TRUE, !.sh.profile = profile]
        enabled == IF enable THEN ShotEnable(loaded) ELSE loaded
    IN IF enabled.error # None THEN enabled ELSE ShotUpdateShow(enabled)

\* lines 355-364
ShotDelaySwitchHit(w, switch) ==
    [w EXCEPT !.sh.timers = @ \cup {switch},
              !.sh.active_delays = @ \cup {switch}]

\* lines 366-367, called by the timer of the switch
ShotReleaseDelay(w, switch) ==
    LET fired == [w EXCEPT !.sh.timers = @ \ {switch}]
    IN IF switch \in fired.sh.active_delays
       THEN [fired EXCEPT !.sh.active_delays = @ \ {switch}]
       ELSE ShotRaise(fired, "KeyError")

\* the shot after a call, with what the call did and returned
ShotCommit(w, call) ==
    /\ shot' = w.sh
    /\ op' = call @@ [result |-> w.result]
    /\ calls' = IF w.error = None THEN w.log
                ELSE Append(w.log, Call("raise", w.error, 0, 0))
    /\ UNCHANGED <<update_vars, device_vars, show_vars, external_vars,
                   tick_vars, playlist_vars, player_vars>>

LoadInMode ==
    /\ ~shot.loaded
    /\ \E profile \in Profiles, enable \in BOOLEAN :
           ShotCommit(ShotLoadedInMode(ShotWorld, profile, enable),
                      [name |-> "device_loaded_in_mode", enable |-> enable])

ShotEnabled ==
    /\ shot.loaded
    /\ ShotCommit(ShotEnable(ShotWorld), [name |-> "enable"])

ShotDisabled ==
    /\ shot.loaded
    /\ ShotCommit(ShotDisable(ShotWorld), [name |-> "disable"])

AdvanceShot ==
    /\ shot.loaded
    /\ \E force \in BOOLEAN :
           ShotCommit(ShotAdvance(ShotWorld, force),
                      [name |-> "advance", force |-> force])

JumpShot ==
    /\ shot.loaded
    /\ \E state \in JumpTargets, force \in BOOLEAN :
           ShotCommit(ShotJump(ShotWorld, state, force),
                      [name |-> "jump", state |-> state, force |-> force])

ResetShot ==
    /\ shot.loaded
    /\ ShotCommit(ShotReset(ShotWorld), [name |-> "reset"])

HitShot ==
    /\ shot.loaded
    /\ ShotCommit(ShotHit(ShotWorld), [name |-> "hit"])

\* the handler of a delay switch, registered while the shot is enabled
DelaySwitchHit ==
    /\ shot.loaded
    /\ shot.enabled
    /\ \E switch \in DelaySwitches :
           ShotCommit(ShotDelaySwitchHit(ShotWorld, switch),
                      [name |-> "_delay_switch_hit", switch |-> switch])

\* the timer of a delay switch runs out
DelayTimer ==
    \E switch \in shot.timers :
        ShotCommit(ShotReleaseDelay(ShotWorld, switch),
                   [name |-> "_release_delay", switch |-> switch])

\* ------------------------------------------------------------------------
\* Shows played and stopped by key
\* ------------------------------------------------------------------------
\* self.machine.shows: the registered shows by name
RegisteredShows == [name \in {"show_s1", "show_s2"} |->
                       IF name = "show_s1" THEN "s1" ELSE "s2"]

\* the values play_show takes as show: a registered name or a show object
ShowArgs == DOMAIN RegisteredShows \cup Shows

\* lines 127-130: the show object that is played
PlayedShow(show) ==
    IF show \in DOMAIN RegisteredShows THEN RegisteredShows[show] ELSE show

\* lines 113-137; key = None stands for a call without key
play_show(w, show, priority, key) ==
    LET played_show == ShowPlay(w, PlayedShow(show), priority, 0, FALSE, None)
    IN IF key = None THEN played_show
       ELSE [played_show EXCEPT !.keys[key] = show]

\* 'str' object has no attribute 'stop'
HasStop(value) == value \in Shows

\* lines 151-155
stop_shows_by_key(w, key) ==
    IF w.keys[key] = None THEN w
    ELSE IF ~HasStop(w.keys[key]) THEN [w EXCEPT !.error = "AttributeError"]
    ELSE ShowStop(w, w.keys[key], None)

\* Show.stop(reset=False, hold=...): as ShowStop, the step is kept
ShowStopNoReset(w, s, hold) ==
    [ShowStop(w, s, hold) EXCEPT
        !.shows[s].current_step = w.shows[s].current_step]

\* lines 139-149, without key
stop_show(w, show) ==
    IF HasStop(show) THEN ShowStopNoReset(w, show, "False")
    ELSE IF show \in DOMAIN RegisteredShows
         THEN ShowStop(w, RegisteredShows[show], None)
         ELSE w

\* lines 789-803: the del raises KeyError when _end_show has removed the key
stop_light_script(w, key) ==
    IF w.keys[key] = None THEN w
    ELSE LET stopped == stop_show(w, w.keys[key])
         IN [stopped EXCEPT !.keys[key] = None]

\* lines 780-787: the show built from the script is played and kept by key
run_light_script(w, show, key) ==
    LET played_show == ShowPlay(w, show, 0, 0, FALSE, None)
    IN [played_show EXCEPT !.keys[key] = show]

PlayShow ==
    \E show \in ShowArgs, priority \in Priorities, key \in Keys \cup {None} :
        Commit(play_show(World, show, priority, key),
               [name |-> "play_show", show |-> show, key |-> key])

StopShowsByKey ==
    \E key \in Keys :
        Commit(stop_shows_by_key(World, key),
               [name |-> "stop_shows_by_key", key |-> key])

\* Show(...) of line 780 is a new object: no key refers to it, it is not
\* running
RunLightScript ==
    \E show \in Shows, key \in Keys :
        /\ ~shows[show].running
        /\ \A k \in Keys : running_show_keys[k] # show
        /\ Commit(run_light_script(World, show, key),
                  [name |-> "run_light_script", show |-> show, key |-> key])

StopLightScript ==
    \E key \in Keys :
        Commit(stop_light_script(World, key),
               [name |-> "stop_light_script", key |-> key])

\* ------------------------------------------------------------------------
\* The show_player section of a mode (lines 167-218, 282-324)
\* ------------------------------------------------------------------------
MaxStarts == 2

PlayerEvents == {"ev1", "ev2"}

\* one play action of the section, as the config file has it: the name of a
\* registered show and, if the entry has one, a priority.  configured keeps
\* what the file said ("configured action priority"); no code reads it
FileAction(show, has_priority, priority) ==
    [show |-> show, has_priority |-> has_priority, priority |-> priority,
     has_show_priority |-> FALSE, show_priority |-> 0, hold |-> FALSE,
     configured |-> priority]

FileActions ==
    {FileAction(show, TRUE, priority) :
        show \in DOMAIN RegisteredShows, priority \in Priorities}
    \cup {FileAction(show, FALSE, 0) : show \in DOMAIN RegisteredShows}

NewMode == [loaded |-> FALSE, active |-> FALSE, priority |-> 0, starts |-> 0,
            event_keys |-> {}, shows |-> {}]

\* lines 190-198: the name of a registered show is replaced by the Show; a
\* Show, left there by an earlier start, is no key of machine.shows
LookedUp(show) ==
    IF show \in DOMAIN RegisteredShows THEN RegisteredShows[show] ELSE show

\* lines 200-203: the priority of the mode is added to the entry's own, in
\* the dict of the config
WithModePriority(action, priority) ==
    IF action.has_priority
    THEN [action EXCEPT !.priority = @ + priority]
    ELSE [action EXCEPT !.has_priority = TRUE, !.priority = priority]

\* lines 294-298 of add_show_player_show, on the same dict
Settings(action) ==
    IF action.has_priority
    THEN [action EXCEPT !.has_show_priority = TRUE,
                        !.show_priority = action.priority]
    ELSE action

\* events.add_handler(event, handler, priority=1, **kwargs) takes the
\* priority of the settings as the priority of the handler; the other
\* settings are the keyword arguments of the later call (lines 320-322)
Handler(event, settings) ==
    [event |-> event, handler |-> "play_show", show |-> settings.show,
     has_show_priority |-> settings.has_show_priority,
     show_priority |-> settings.show_priority]

\* lines 173-216, for one action of the section
ProcessedAction(action, priority) ==
    Settings(WithModePriority([action EXCEPT !.show = LookedUp(@)], priority))

\* lines 167-218: process_show_player(config, mode, priority)
process_show_player(config, priority) ==
    LET processed == [e \in PlayerEvents |->
                          ProcessedAction(config[e], priority)]
    IN [config |-> processed,
        event_keys |-> {Handler(e, processed[e]) : e \in PlayerEvents},
        shows |-> {processed[e].show : e \in PlayerEvents}]

\* lines 124-132: play_show as the handler of an event, called with the
\* keyword arguments of the handler and the default priority 0
play_show_handler(w, h) ==
    play_show(w, h.show,
              IF h.has_show_priority THEN 0 + h.show_priority ELSE 0, None)

RECURSIVE PostIn(_, _)
PostIn(w, hs) ==
    IF hs = {} THEN w
    ELSE LET h == CHOOSE x \in hs : TRUE
         IN PostIn(play_show_handler(w, h), hs \ {h})

\* lines 288-292: show.stop() for each show of the removal tuple, in the
\* order of the set
RECURSIVE StopEach(_, _)
StopEach(w, order) ==
    IF order = <<>> THEN w
    ELSE StopEach(ShowStop(w, Head(order), None), Tail(order))

Orders(S) ==
    {o \in UNION {[1..n -> S] : n \in {Cardinality(S)}} :
        {o[i] : i \in 1..Cardinality(S)} = S}

\* the config of the mode is read: the actions of its show_player section and
\* the priority of the mode
LoadShowPlayer ==
    /\ ~player_mode.loaded
    /\ \E config \in [PlayerEvents -> FileActions], priority \in Priorities :
           /\ show_player' = config
           /\ player_mode' = [player_mode EXCEPT !.loaded = TRUE,
                                                 !.priority = priority]
    /\ op' = [name |-> "load_config"]
    /\ calls' = <<>>
    /\ UNCHANGED <<event_handlers, update_vars, device_vars, show_vars,
                   external_vars, tick_vars, playlist_vars, shot>>

\* the mode starts: process_show_player(config, mode, priority)
ModeStart ==
    /\ player_mode.loaded
    /\ ~player_mode.active
    /\ player_mode.starts < MaxStarts
    /\ LET done == process_show_player(show_player, player_mode.priority)
       IN /\ show_player' = done.config
          /\ event_handlers' = event_handlers \cup done.event_keys
          /\ player_mode' = [player_mode EXCEPT !.active = TRUE,
                                                !.starts = @ + 1,
                                                !.event_keys = done.event_keys,
                                                !.shows = done.shows]
    /\ op' = [name |-> "process_show_player"]
    /\ calls' = <<>>
    /\ UNCHANGED <<update_vars, device_vars, show_vars, external_vars,
                   tick_vars, playlist_vars, shot>>

\* the mode stops: unload_show_player_shows(removal_tuple), lines 282-292
ModeStop ==
    /\ player_mode.active
    /\ event_handlers' = event_handlers \ player_mode.event_keys
    /\ player_mode' = [player_mode EXCEPT !.active = FALSE,
                                          !.event_keys = {},
                                          !.shows = {}]
    /\ UNCHANGED show_player
    /\ \E order \in Orders(player_mode.shows) :
           CommitWorld(StopEach(World, order),
                       [name |-> "unload_show_player_shows"])

\* an event of the section is posted: its handlers are called
PostPlayerEvent ==
    /\ \E event \in PlayerEvents :
           /\ \E h \in event_handlers : h.event = event
           /\ CommitWorld(
                  PostIn(World, {h \in event_handlers : h.event = event}),
                  [name |-> "post", event |-> event])
    /\ UNCHANGED player_vars

\* ------------------------------------------------------------------------
\* Specifications
\* ------------------------------------------------------------------------
InitExceptQueue ==
    /\ light_update_list = <<>>
    /\ led_update_list = <<>>
    /\ light_state = [l \in Lights |-> 0]
    /\ light_cache = [l \in Lights |-> 0]
    /\ led_state = [l \in Leds |-> 0]
    /\ led_cache = [l \in Leds |-> 0]
    /\ shows = [s \in Shows |-> NewShow(s)]
    /\ running_shows = <<>>
    /\ running_show_keys = [k \in Keys |-> None]
    /\ current_tick_time = 0
    /\ registered_tick_handlers = {}
    /\ external_show_connected = FALSE
    /\ external_show_command_queue = <<>>
    /\ running_external_show_keys = <<>>
    /\ pc = "idle"
    /\ tick_i = 1
    /\ handlers_left = {}
    /\ iter_size = 0
    /\ iterated = IteratedLive
    /\ playlist = NewPlaylist
    /\ played = <<>>
    /\ shot = NewShot
    /\ show_player = [e \in PlayerEvents |-> CHOOSE a \in FileActions : TRUE]
    /\ event_handlers = {}
    /\ player_mode = NewMode
    /\ op = [name |-> "__init__", device |-> "", priority |-> 0]
    /\ calls = <<>>

\* line 64
Init == InitExceptQueue /\ queue = <<>>

\* stop() called with deferred actions on the queue, of this playlist and of
\* another
InitDeferred == InitExceptQueue /\ queue \in DeferredQueues

\* the update lists, their flush and the devices they write to
NextUpdate ==
    \/ AddLight
    \/ AddLed
    \/ DoUpdate
    \/ DeviceRestore

SpecUpdate == Init /\ [][NextUpdate]_vars

\* the life of the shows: started, advanced by their ticks, ended
NextShows ==
    \/ Play
    \/ Stop
    \/ Advance
    \/ ClockTick

SpecShows == Init /\ [][NextShows]_vars

\* shows of any priority ending over devices written at any priority
NextRestore ==
    \/ Play
    \/ Stop
    \/ Configure
    \/ DeviceSet

SpecRestore == Init /\ [][NextRestore]_vars

\* the frames: the main thread inside and between _tick calls, the BCP worker
\* thread putting commands on the queue at any time
NextTick ==
    \/ TickBegin
    \/ TickShow
    \/ TickHandlersBegin
    \/ TickRaise
    \/ TickHandler
    \/ TickDoUpdate
    \/ Register
    \/ Deregister
    \/ ExternalStart
    \/ ExternalStop
    \/ ExternalFrame
    \/ IdlePlay
    \/ IdleStop

SpecTick == Init /\ [][NextTick]_vars

\* the frames with frame observers that register and deregister handlers
\* from inside their own call; no other thread runs
NextObservers ==
    \/ TickBegin
    \/ TickShow
    \/ TickHandlersBegin
    \/ TickRaise
    \/ TickHandler
    \/ TickHandlerMutates
    \/ TickDoUpdate
    \/ RegisterAny
    \/ DeregisterAny
    \/ IdlePlay
    \/ IdleStop

SpecObservers == Init /\ [][NextObservers]_vars

\* the BCP worker thread queueing commands while the main thread runs
\* frames that do nothing but drain them
NextQueue ==
    \/ TickBegin
    \/ TickHandlersBegin
    \/ TickRaise
    \/ TickHandler
    \/ TickDoUpdate
    \/ WorkerStart
    \/ WorkerStop
    \/ WorkerFrame

SpecQueue == Init /\ [][NextQueue]_vars

\* frames in which shows end, call their callbacks and advance the playlist,
\* which stops and plays shows while _tick goes through the running shows
NextTickShows ==
    \/ TickBegin
    \/ TickShowQuiet
    \/ TickShowEnds
    \/ TickHandlersBegin
    \/ TickDoUpdate
    \/ IdlePlay
    \/ IdleBuildShows
    \/ IdleBuildStepSettings
    \/ IdleStartPlaylist

SpecTickShows == Init /\ [][NextTickShows]_vars

\* frames that drain the commands which the BCP worker thread has queued
\* between them; no command arrives while a frame runs
NextQueueBetweenTicks ==
    \/ TickBegin
    \/ TickHandlersBegin
    \/ TickHandler
    \/ TickDoUpdate
    \/ IdleStart
    \/ IdleStopCommand
    \/ IdleFrame

SpecQueueBetweenTicks == Init /\ [][NextQueueBetweenTicks]_vars

\* frames that do nothing but drain the commands of external shows, the
\* frame commands carrying data of every kind
NextFrames ==
    \/ TickBegin
    \/ TickHandlersBegin
    \/ TickRaise
    \/ TickHandler
    \/ TickDoUpdate
    \/ SlowStart
    \/ SlowStop
    \/ SlowLedFrame
    \/ SlowOtherFrame

SpecFrames == Init /\ [][NextFrames]_vars

\* any sequence of calls of the playlist's methods
NextPlaylist ==
    \/ AddShow
    \/ StepSettings
    \/ StartPlaylist
    \/ StopPlaylist
    \/ AdvancePlaylist
    \/ ShowEnds

SpecPlaylist == Init /\ [][NextPlaylist]_vars

\* add_show and step_settings with every argument, on a playlist at rest
BuildShowAny == ~playlist.running /\ AddShowWith(Shows, {0, 1})

NextPlaylistBuild ==
    \/ BuildShowAny
    \/ StepSettings

SpecPlaylistBuild == Init /\ [][NextPlaylistBuild]_vars

\* a playlist built, started, played through and stopped
NextPlaylistRun ==
    \/ BuildShow
    \/ BuildSettings
    \/ StartFromBeginning
    \/ StopPlaylist
    \/ ShowEnds
    \/ LateAdvance

SpecPlaylistRun == Init /\ [][NextPlaylistRun]_vars

\* the shows of a playlist as it runs
NextPlaylistShows ==
    \/ BuildShows
    \/ BuildStepSettings
    \/ StartAny
    \/ StopPlaylist
    \/ ShowEnds

SpecPlaylistShows == Init /\ [][NextPlaylistShows]_vars

\* a playlist stopped, whatever the queue holds
NextPlaylistStop ==
    \/ BuildShows
    \/ BuildStepSettings
    \/ StartFromBeginning
    \/ StopAny

SpecPlaylistStop == InitDeferred /\ [][NextPlaylistStop]_vars

\* shows played by name, by object and from scripts, with and without a
\* key, stopped by key and ending on their own
NextKeys ==
    \/ PlayShow
    \/ RunLightScript
    \/ StopShowsByKey
    \/ StopLightScript
    \/ ShowEnds

SpecKeys == Init /\ [][NextKeys]_vars

\* a shot of any profile, loaded in its mode, then hit, advanced, jumped,
\* reset, enabled and disabled in any order
NextShot ==
    \/ LoadInMode
    \/ ShotEnabled
    \/ ShotDisabled
    \/ AdvanceShot
    \/ JumpShot
    \/ ResetShot
    \/ HitShot
    \/ DelaySwitchHit
    \/ DelayTimer

SpecShot == Init /\ [][NextShot]_vars

\* a mode with a show_player section: loaded, started and stopped, its
\* events posted
NextShowPlayer ==
    \/ LoadShowPlayer
    \/ ModeStart
    \/ ModeStop
    \/ PostPlayerEvent

SpecShowPlayer == Init /\ [][NextShowPlayer]_vars

Next ==
    \/ NextUpdate
    \/ NextShows
    \/ NextRestore
    \/ NextTick
    \/ NextObservers
    \/ NextQueue
    \/ NextFrames
    \/ NextPlaylist
    \/ NextPlaylistBuild
    \/ NextPlaylistRun
    \/ NextPlaylistShows
    \/ NextPlaylistStop
    \/ NextShot
    \/ NextKeys
    \/ NextTickShows
    \/ NextQueueBetweenTicks
    \/ NextShowPlayer

Spec == Init /\ [][Next]_vars

\* ------------------------------------------------------------------------
\* Properties of the update lists and their flush
\* ------------------------------------------------------------------------
CallsOf(fns) == SelectSeq(calls, LAMBDA c : c.fn \in fns)

OnePerLight(lst) ==
    \A i, j \in 1..Len(lst) : lst[i].light = lst[j].light => i = j

OnePerLed(lst) ==
    \A i, j \in 1..Len(lst) : lst[i].led = lst[j].led => i = j

\* C3 as stated: the pending light list and the pending LED list each hold
\* at most one record per device.
C3_OnePerDevice ==
    OnePerLight(light_update_list) /\ OnePerLed(led_update_list)

\* C3 as amended: a call whose priority is not below that of any pending
\* record of its device keeps the list at one record per device; a call with
\* a lower priority leaves the higher-priority record pending and appends
\* the new record behind it.
C3_OnePerDeviceUnlessLower ==
    [][/\ op'.name = "add_to_light_update_list" =>
            LET old == light_update_list
                new == light_update_list'
                higher == {i \in 1..Len(old) :
                              /\ old[i].light = op'.device
                              /\ old[i].priority > op'.priority}
            IN /\ (OnePerLight(old) /\ higher = {}) => OnePerLight(new)
               /\ higher # {} =>
                    /\ \A i \in higher : \E j \in 1..(Len(new) - 1) :
                           new[j] = old[i]
                    /\ new[Len(new)].light = op'.device
                    /\ new[Len(new)].priority = op'.priority
       /\ op'.name = "add_to_led_update_list" =>
            LET old == led_update_list
                new == led_update_list'
                higher == {i \in 1..Len(old) :
                              /\ old[i].led = op'.device
                              /\ old[i].priority > op'.priority}
            IN /\ (OnePerLed(old) /\ higher = {}) => OnePerLed(new)
               /\ higher # {} =>
                    /\ \A i \in higher : \E j \in 1..(Len(new) - 1) :
                           new[j] = old[i]
                    /\ new[Len(new)].led = op'.device
                    /\ new[Len(new)].priority = op'.priority]_vars

\* two lights have one pending record each after the second add
C3_Witness ==
    /\ op.name = "add_to_light_update_list"
    /\ Len(light_update_list) = 2
    /\ light_update_list[1].light # light_update_list[2].light

KeptLights(lst, light, priority) ==
    SelectSeq(lst, LAMBDA r : r.light # light \/ r.priority > priority)

KeptLeds(lst, led, priority) ==
    SelectSeq(lst, LAMBDA r : r.led # led \/ r.priority > priority)

\* C4: an add for device d with priority p removes no pending record of d
\* whose priority is above p, and removes or alters no pending record of
\* another device (of either kind).
C4_AddKeepsHigherAndOthers ==
    [][/\ op'.name = "add_to_light_update_list" =>
            /\ KeptLights(light_update_list', op'.device, op'.priority)
                 = KeptLights(light_update_list, op'.device, op'.priority)
            /\ led_update_list' = led_update_list
       /\ op'.name = "add_to_led_update_list" =>
            /\ KeptLeds(led_update_list', op'.device, op'.priority)
                 = KeptLeds(led_update_list, op'.device, op'.priority)
            /\ light_update_list' = light_update_list]_vars

\* an add left a higher-priority record of its own light pending
C4_Witness ==
    /\ op.name = "add_to_light_update_list"
    /\ Len(light_update_list) = 2
    /\ light_update_list[1].light = op.device
    /\ light_update_list[1].priority > op.priority
    /\ light_update_list[2].priority = op.priority

\* ------------------------------------------------------------------------
\* Properties of the running shows
\* ------------------------------------------------------------------------
Count(lst, x) == Cardinality({i \in 1..Len(lst) : lst[i] = x})

\* C5: _run_show on a show that is already in running_shows leaves
\* running_shows unchanged, with the show in it exactly once, and does not
\* modify the show's next_step_time, current_loop_number, ending or running.
C5_RunShowIdempotent ==
    [][\A s \in Shows :
        (op'.name = "_run_show" /\ op'.show = s /\ InList(running_shows, s)) =>
            /\ running_shows' = running_shows
            /\ Count(running_shows', s) = 1
            /\ shows'[s].next_step_time = shows[s].next_step_time
            /\ shows'[s].current_loop_number = shows[s].current_loop_number
            /\ shows'[s].ending = shows[s].ending
            /\ shows'[s].running = shows[s].running]_vars

\* _run_show returned for a running show whose ending flag, loop number and
\* next step time are not those a start would have set
C5_Witness ==
    /\ op.name = "_run_show"
    /\ Count(running_shows, op.show) = 1
    /\ shows[op.show].ending
    /\ shows[op.show].current_loop_number = 1
    /\ shows[op.show].next_step_time
         # StartedShow(shows[op.show], current_tick_time).next_step_time

\* C6: after every _run_show or _end_show, each show is running if and only
\* if it is an element of running_shows, and no show is in running_shows
\* more than once.
C6_RunningIffMember ==
    \A s \in Shows :
        /\ shows[s].running <=> InList(running_shows, s)
        /\ Count(running_shows, s) <= 1

\* one show was ended while the other one keeps running
C6_Witness ==
    /\ op.name = "_end_show"
    /\ ~shows[op.show].running
    /\ ~InList(running_shows, op.show)
    /\ \E s \in Shows : shows[s].running /\ InList(running_shows, s)

RestoreCalls == {calls[i].device : i \in {j \in 1..Len(calls) : calls[j].fn = "restore"}}

DeviceCache(d) == IF d \in Lights THEN light_cache[d] ELSE led_cache[d]

ResyncCalls == SelectSeq(calls, LAMBDA c : c.fn = "resync")

\* C8: when show S stops without hold, resync() is requested on exactly the
\* shows still in the running set whose priority is strictly below
\* S.priority, once each: never on S, never on a show of equal or higher
\* priority.
C8_ResyncExactlyLower ==
    (op.name = "_end_show" /\ ~shows[op.show].hold) =>
        /\ \A s \in Shows :
            Cardinality({i \in 1..Len(ResyncCalls) : ResyncCalls[i].device = s})
              = IF /\ s # op.show
                   /\ InList(running_shows, s)
                   /\ shows[s].priority < shows[op.show].priority
                THEN 1 ELSE 0

\* the higher of two running shows was stopped and the lower one resynced
C8_Witness ==
    /\ op.name = "_end_show"
    /\ ~shows[op.show].hold
    /\ Len(ResyncCalls) = 1
    /\ ResyncCalls[1].device # op.show
    /\ shows[ResyncCalls[1].device].priority < shows[op.show].priority

\* C9: _end_show on a show that is not in running_shows issues no restore(),
\* no resync, does not invoke the show's callback, and leaves current_step
\* and running_show_keys unchanged.
C9_EndStoppedShowIsNoOp ==
    [][\A s \in Shows :
        (op'.name = "_end_show" /\ op'.show = s /\ ~InList(running_shows, s)) =>
            /\ calls' = <<>>
            /\ shows'[s].current_step = shows[s].current_step
            /\ running_show_keys' = running_show_keys]_vars

\* ------------------------------------------------------------------------
\* Properties of _tick
\* ------------------------------------------------------------------------
TickDone == pc = "idle" /\ op.name = "_tick"

Positions(fns) == {i \in 1..Len(calls) : calls[i].fn \in fns}

ObserverPositions ==
    {i \in Positions({"handler"}) : calls[i].device # UpdateExternalShows}

DrainPositions ==
    {i \in Positions({"handler"}) : calls[i].device = UpdateExternalShows}

Mutations == Positions({"register", "deregister"})

\* C11: a frame observer that calls register_tick_handler or
\* deregister_tick_handler during its own invocation inside _tick causes no
\* error: the tick goes on to invoke the remaining observers and to flush the
\* pending updates.
C11_MutationTolerated ==
    Mutations # {} => pc # "raised"

\* ------------------------------------------------------------------------
\* Properties of the external show command queue
\* ------------------------------------------------------------------------
Commands == {"start", "stop", "frame"}

\* the step is the call of _update_external_shows by _tick
Drained ==
    /\ pc = "handlers"
    /\ UpdateExternalShows \in handlers_left
    /\ UpdateExternalShows \notin handlers_left'

\* the commands the step applied, in the order it applied them
Applied ==
    SelectSeq(SubSeq(calls', Len(calls) + 1, Len(calls')),
              LAMBDA c : c.fn \in Commands)

\* C12: an external start, stop or frame command creates or removes an entry
\* of running_external_show_keys, enqueues device updates or restores devices
\* only in the call of _update_external_shows made by _tick, never in the
\* producer's add_external_show_*_command_to_queue call, and that call
\* applies the queued commands in the order in which they were enqueued.
C12_AppliedInDrainInOrder ==
    [][/\ ~Drained =>
            /\ running_external_show_keys' = running_external_show_keys
            /\ led_update_list' \in {led_update_list, <<>>}
            /\ Applied = <<>>
       /\ Len(external_show_command_queue')
            > Len(external_show_command_queue) =>
            /\ pc' = pc
            /\ UNCHANGED <<update_vars, device_vars,
                           running_external_show_keys, log_vars>>
       /\ Drained =>
            /\ Len(Applied) <= Len(external_show_command_queue)
            /\ pc' # "raised" =>
                 Len(Applied) = Len(external_show_command_queue)
            /\ \A i \in 1..Len(Applied) :
                /\ Applied[i].fn = external_show_command_queue[i].cmd
                /\ Applied[i].device = external_show_command_queue[i].name
                /\ Applied[i].fn = "start" =>
                     Applied[i].priority
                       = external_show_command_queue[i].priority
            /\ external_show_command_queue' =
                 SubSeq(external_show_command_queue, Len(Applied) + 1,
                        Len(external_show_command_queue))]_vars

\* a frame drained a start command and the frame command queued behind it:
\* the show exists and its LED updates are pending
C12_Witness ==
    /\ pc = "handlers"
    /\ [i \in 1..Len(CallsOf(Commands)) |-> CallsOf(Commands)[i].fn]
         = <<"start", "frame">>
    /\ running_external_show_keys # <<>>
    /\ led_update_list # <<>>
    /\ external_show_command_queue = <<>>


\* C13: the command queue is the only state shared between the producer
\* thread and the main thread: registered_tick_handlers is not modified
\* while _tick is iterating it.
C13_HandlersStableWhileIterated ==
    [][pc = "handlers" =>
        registered_tick_handlers' = registered_tick_handlers]_vars

Min(a, b) == IF a <= b THEN a ELSE b

\* C14: when the drain applies one frame command with LED data, addressed to
\* a known external show whose LED list is d1..dn, the data being m chunks
\* of six characters, it raises no error and appends exactly min(n, m) LED
\* update records: the i-th for di, with the color decoded from chunk i, at
\* the show's priority and blend; nothing else is added to the list.
C14_FrameChunks ==
    [][(/\ Drained
        /\ Len(external_show_command_queue) = 1
        /\ external_show_command_queue[1].cmd = "frame"
        /\ external_show_command_queue[1].led_data # <<>>
        /\ external_show_command_queue[1].name
             \in DOMAIN running_external_show_keys) =>
        LET c == external_show_command_queue[1]
            show == running_external_show_keys[c.name]
            k == Min(Len(show.leds), Len(c.led_data) \div LedChunk)
            new == led_update_list'
            kept == Len(new) - k
        IN /\ pc' # "raised"
           /\ kept >= 0
           /\ kept <= Len(led_update_list)
           /\ \A j \in 1..kept : InList(led_update_list, new[j])
           /\ \A i \in 1..k :
               new[kept + i] =
                   LedRecord(show.leds[i],
                             HexToRgb(SubSeq(c.led_data, LedChunk * (i - 1) + 1,
                                             LedChunk * i)),
                             0, show.priority, show.blend)]_vars

\* a frame with three chunks of LED data was applied to a show of two LEDs:
\* two records are pending, red for the first LED and blue for the second
C14_Witness ==
    /\ pc = "handlers"
    /\ \E i \in 1..Len(calls) :
        calls[i].fn = "frame" /\ calls[i].seen = 3 * LedChunk
    /\ Len(led_update_list) = 2
    /\ led_update_list[1].led = ExternalLeds[1]
    /\ led_update_list[1].color = <<255, 0, 0>>
    /\ led_update_list[2].led = ExternalLeds[2]
    /\ led_update_list[2].color = <<0, 0, 255>>

\* C15: when the drain applies one frame command addressed to a known
\* external show, whatever kinds of data it carries (LED, light, flasher, GI
\* or coil data), the command completes without raising an error.
C15_FrameCompletes ==
    [][(/\ Drained
        /\ Len(external_show_command_queue) = 1
        /\ external_show_command_queue[1].cmd = "frame"
        /\ external_show_command_queue[1].events = NoData
        /\ external_show_command_queue[1].name
             \in DOMAIN running_external_show_keys) =>
        pc' # "raised"]_vars

\* C16: after any sequence of add_show, step_settings, start, stop and
\* _advance calls, steps is strictly ascending and holds exactly the step
\* numbers that were passed to add_show, and when steps is not empty
\* 0 <= current_step_position < len(steps).
C16_StepsSortedPositionInRange ==
    /\ \A i \in 1..(Len(playlist.steps) - 1) :
           playlist.steps[i] < playlist.steps[i + 1]
    /\ Range(playlist.steps)
           = {playlist.step_actions[i].step_num :
                  i \in 1..Len(playlist.step_actions)}
    /\ playlist.steps # <<>> =>
           /\ 0 <= playlist.current_step_position
           /\ playlist.current_step_position < Len(playlist.steps)

\* three steps added in descending order, the playlist running at its last
C16_Witness ==
    /\ playlist.steps = <<1, 2, 3>>
    /\ playlist.step_actions[1].step_num = 3
    /\ playlist.step_actions[3].step_num = 1
    /\ playlist.running
    /\ playlist.current_step_position = 2

\* C17: after add_show(step_num, show, ...) step_actions holds one entry
\* for each (step_num, show) pair, the entry of the pair of the call holds
\* the values of this call, and every entry of another pair, the same step
\* with another show included, is kept as it was.
C17_OneEntryPerStepAndShow ==
    [][op'.name = "add_show" =>
        LET before == playlist.step_actions
            after == playlist'.step_actions
            Called(a) == a.step_num = op'.step_num /\ a.show = op'.show
        IN /\ \A i, j \in 1..Len(after) :
                  (/\ after[i].step_num = after[j].step_num
                   /\ after[i].show = after[j].show) => i = j
           /\ \E i \in 1..Len(after) :
                  /\ Called(after[i])
                  /\ after[i].loops = op'.loops
                  /\ after[i].tocks_per_sec = 32
                  /\ ~after[i].blend
                  /\ after[i].repeat
           /\ {a \in Range(after) : ~Called(a)}
                  = {a \in Range(before) : ~Called(a)}]_vars

\* add_show has replaced the entry of its step and show, and the step has an
\* entry for another show
C17_Witness ==
    /\ op.name = "add_show"
    /\ op.replaced = 1
    /\ \E i \in 1..Len(playlist.step_actions) :
           /\ playlist.step_actions[i].step_num = op.step_num
           /\ playlist.step_actions[i].show # op.show

Raised == \E i \in 1..Len(calls) : calls[i].fn = "raise"

TimedPlaylist ==
    /\ playlist.steps = <<1, 2, 3>>
    /\ DOMAIN playlist.step_settings_dic = {1, 2, 3}
    /\ \A n \in {1, 2, 3} : playlist.step_settings_dic[n] = TimedStep

\* C18: start(repeat=False) of a playlist with the steps 1, 2 and 3, each
\* timed, plays step 1 and moves on to step 2 without an error (from where
\* the timer is to play steps 2 and 3 and set stopping).
C18_TimedPlaylistStarts ==
    (op.name = "start" /\ TimedPlaylist /\ ~playlist.repeat) =>
        /\ ~Raised
        /\ played = <<1>>
        /\ playlist.current_step_position = 1

\* every step played so far is the next step of the playlist, round after
\* round
PlayedInOrder ==
    \A i \in 1..Len(played) :
        played[i] = playlist.steps[((i - 1) % Len(playlist.steps)) + 1]

\* the step played last ends with its trigger show
LastStepTriggered ==
    /\ played # <<>>
    /\ played[Len(played)] \in DOMAIN playlist.step_settings_dic
    /\ playlist.step_settings_dic[played[Len(played)]] = TriggerStep

C20_AdvanceWhenNotRunning ==
    [][/\ (op'.name = "_advance" /\ ~playlist.running) =>
              /\ UNCHANGED <<playlist, shows, running_shows, light_state,
                             led_state, running_show_keys, queue, played>>
              /\ calls' = <<>>
       /\ op'.name = "stop" =>
              /\ played' \in {played, <<>>}
              /\ playlist'.current_step_position
                     \in {playlist.current_step_position, 0}
              /\ \A i \in 1..Len(calls') : calls'[i].fn # "play"]_vars

\* _advance was called on a playlist stopped in the middle
C20_Witness ==
    /\ op.name = "_advance"
    /\ ~playlist.running
    /\ playlist.current_step_position = 1
    /\ played = <<1>>
    /\ calls = <<>>

\* the shows that add_show gave to a step
StepShows(pl, step) ==
    {pl.step_actions[i].show :
         i \in {j \in 1..Len(pl.step_actions) :
                    pl.step_actions[j].step_num = step}}

\* steps[current_step_position - 1], the step that is playing
PlayingStep(pl) ==
    pl.steps[IF pl.current_step_position = 0 THEN Len(pl.steps)
             ELSE pl.current_step_position]

\* the call log holds a stop of show s before any play
StoppedFirst(log, s) ==
    \E i \in 1..Len(log) :
        /\ log[i].fn = "stop"
        /\ log[i].device = s
        /\ \A j \in 1..(i - 1) : log[j].fn # "play"

StepPlayed ==
    /\ playlist'.running
    /\ played' # played
    /\ played' # <<>>

\* the trigger show of a playlist that is stopping has ended
FinalAdvance ==
    /\ playlist.running
    /\ playlist.stopping
    /\ op'.name = "show_ends"
    /\ \E i \in 1..Len(calls') :
           /\ calls'[i].fn = "stop"
           /\ shows[calls'[i].device].callback = "_advance"

\* C22: after an _advance has played a step, the shows that are running are
\* shows of that step, the shows of the step before having been stopped
\* first; after the _advance that ends a stopping playlist no show runs.
C22_OnlyCurrentStepRuns ==
    [][/\ StepPlayed =>
              \A s \in Shows :
                  shows'[s].running =>
                      s \in StepShows(playlist', played'[Len(played')])
       /\ FinalAdvance => \A s \in Shows : ~shows'[s].running]_vars

\* the loops that add_show stored for a show of a step
ConfiguredLoops(pl, step, s) ==
    LET i == CHOOSE j \in 1..Len(pl.step_actions) :
                 /\ pl.step_actions[j].step_num = step
                 /\ pl.step_actions[j].show = s
    IN pl.step_actions[i].loops

\* a show has ended while the playlist was playing, not yet stopping
ShowEndedWhilePlaying(s) ==
    /\ op'.name = "show_ends"
    /\ calls' # <<>>
    /\ calls'[1].fn = "stop"
    /\ calls'[1].device = s
    /\ playlist.running
    /\ ~playlist.stopping
    /\ playlist.steps[playlist.current_step_position + 1]
           \in DOMAIN playlist.step_settings_dic

\* C23: the trigger show of the step that _advance plays is played with
\* callback _advance and with its loops, 1 when they were 0; the other
\* shows of the step with no callback and their loops; the end of the
\* trigger show plays exactly one more step, the end of another show none.
C23_TriggerShowAdvancesOnce ==
    [][/\ StepPlayed =>
              LET step == played'[Len(played')]
                  trigger == playlist'.step_settings_dic[step].trigger_show
              IN \A i \in 1..Len(calls') :
                     calls'[i].fn = "play" =>
                         LET s == calls'[i].device
                             loops == ConfiguredLoops(playlist', step, s)
                         IN IF s = trigger
                            THEN /\ calls'[i].callback = "_advance"
                                 /\ calls'[i].loops
                                        = IF loops = 0 THEN 1 ELSE loops
                            ELSE /\ calls'[i].callback = None
                                 /\ calls'[i].loops = loops
       /\ \A s \in Shows :
              ShowEndedWhilePlaying(s) =>
                  IF shows[s].callback = "_advance"
                  THEN /\ Len(played') = Len(played) + 1
                       /\ SubSeq(played', 1, Len(played)) = played
                  ELSE played' = played]_vars

\* the trigger show s1 of step 1, to loop for ever, was played with one
\* loop beside s2, and its end has played step 2
C23_Witness ==
    /\ op.name = "show_ends"
    /\ played = <<1, 2>>
    /\ StepShows(playlist, 1) = {"s1", "s2"}
    /\ playlist.step_settings_dic[1] = TriggerStep
    /\ calls[1].fn = "stop"
    /\ calls[1].device = "s1"
    /\ \E i \in 1..Len(calls) : calls[i].fn = "play"

\* the last call has played a step that has a time and no trigger show
TimedStepPlayed ==
    /\ op.name \in {"start", "show_ends", "_advance"}
    /\ \E i \in 1..Len(calls) : calls[i].fn = "play"
    /\ played # <<>>
    /\ played[Len(played)] \in DOMAIN playlist.step_settings_dic
    /\ playlist.step_settings_dic[played[Len(played)]] = TimedStep

\* C24: the _advance that plays a step with a time and no trigger show
\* raises nothing and leaves one deferred action for the playlist on the
\* queue of the show controller (which a later tick is to run).
C24_TimedStepScheduled ==
    TimedStepPlayed => (~Raised /\ Len(queue) = 1)

C26_EndedPlaylistNotRunning ==
    [][FinalAdvance => ~playlist'.running]_vars

\* the number of states of the profile of the shot
NumberOfStates == IF shot.loaded THEN Len(shot.profile.states) ELSE 1

\* C27: whatever advance, jump, reset, hit, enable and disable calls were
\* made, with whatever arguments, the state index of the shot is in
\* [0, number of states of its profile).
C27_StateIndexInRange ==
    shot.state \in 0..(NumberOfStates - 1)

\* the calls of the step just made do not touch a show
ShowUntouched ==
    /\ shot'.running_show = shot.running_show
    /\ \A i \in 1..Len(calls') : calls'[i].fn \notin {"play", "stop", "advance"}

\* C28: advance() on an enabled (or forced) shot in state i of n sets the
\* state to i+1 if i+1 < n and to 0 if i+1 = n and the profile loops,
\* returning True; otherwise it leaves the state, does not touch the show
\* and returns False.
C28_AdvanceStepsOrWraps ==
    [][(/\ op'.name = "advance"
        /\ shot.enabled \/ op'.force
        /\ shot.state \in 0..(NumberOfStates - 1)) =>
           IF shot.state + 1 < NumberOfStates
           THEN shot'.state = shot.state + 1 /\ op'.result = TRUE
           ELSE IF shot.profile.loop
                THEN shot'.state = 0 /\ op'.result = TRUE
                ELSE /\ shot'.state = shot.state
                     /\ ShowUntouched
                     /\ op'.result = FALSE]_vars

\* a forced advance() of a disabled shot has wrapped from the last state to
\* state 0 and played the show of that state
C28_Witness ==
    /\ op.name = "advance"
    /\ op.force
    /\ op.result = TRUE
    /\ ~shot.enabled
    /\ shot.state = 0
    /\ shot.profile.loop
    /\ \E i \in 1..Len(calls) : calls[i].fn = "play"

\* C29: on a disabled shot advance(force=False) and jump(state,
\* force=False) leave the state index and the running show as they are; a
\* jump to the state the shot is in does nothing, forced or not.
C29_DisabledOrSameStateNoOp ==
    [][/\ (/\ op'.name \in {"advance", "jump"}
           /\ ~shot.enabled
           /\ ~op'.force) => (shot'.state = shot.state /\ ShowUntouched)
       /\ (/\ op'.name = "jump"
           /\ op'.state = shot.state) =>
              (shot'.state = shot.state /\ ShowUntouched)]_vars

\* jump(state, force=False) to another state was made on a disabled shot
\* whose show runs while it is disabled
C29_Witness ==
    /\ op.name = "jump"
    /\ ~op.force
    /\ op.state # shot.state
    /\ op.state \in 0..(NumberOfStates - 1)
    /\ ~shot.enabled
    /\ shot.running_show.show # None

\* C30: hit() on a shot that is disabled, or that has a delay of a delay
\* switch pending in active_delays, posts no hit event, leaves the state
\* index and does not start, stop or advance the running show.
C30_HitIgnored ==
    [][(/\ op'.name = "hit"
        /\ ~shot.enabled \/ shot.active_delays # {}) =>
           /\ \A i \in 1..Len(calls') : calls'[i].fn # "post"
           /\ shot'.state = shot.state
           /\ ShowUntouched]_vars

\* hit() was called on an enabled shot that advances on a hit, runs a show
\* and has a delay pending
C30_Witness ==
    /\ op.name = "hit"
    /\ shot.enabled
    /\ shot.profile.advance_on_hit
    /\ shot.active_delays # {}
    /\ shot.running_show.show # None
    /\ shot.state + 1 < NumberOfStates

\* the events posted by the call just made
Posted(log) == SelectSeq(log, LAMBDA call : call.fn = "post")

\* C31: every hit() on an enabled shot with no delay pending posts four
\* events with four different names, all with the same payload: the name of
\* the profile, the name of the state the shot was in when it was hit, and
\* whether the shot advanced.
C31_FourDistinctEvents ==
    [][(/\ op'.name = "hit"
        /\ shot.enabled
        /\ shot.active_delays = {}) =>
           /\ HasItem(shot.profile.states, shot.state)
           /\ Len(Posted(calls')) = 4
           /\ \A i, j \in 1..4 :
                  i # j => Posted(calls')[i].device # Posted(calls')[j].device
           /\ \A i \in 1..4 :
                  /\ Posted(calls')[i].profile = shot.profile.name
                  /\ Posted(calls')[i].state
                         = Item(shot.profile.states, shot.state).name
                  /\ Posted(calls')[i].advancing = (shot'.state # shot.state)]_vars

\* C32: enable and disable, however often, leave the state index of the
\* shot; only advance, jump and reset (and the advance that hit makes)
\* change it, and reset() sets it to 0.
C32_StateSurvivesEnableDisable ==
    [][/\ op'.name \in {"enable", "disable"} => shot'.state = shot.state
       /\ shot'.state # shot.state =>
              op'.name \in {"advance", "jump", "reset", "hit"}
       /\ op'.name = "reset" => shot'.state = 0]_vars

\* a shot that is not in state 0 was disabled
C32_Witness ==
    /\ op.name = "disable"
    /\ ~shot.enabled
    /\ shot.state = 2
    /\ \E i \in 1..Len(calls) : calls[i].fn = "stop"

\* the log has stopped the show
StoppedIn(log, show) ==
    \E i \in 1..Len(log) : log[i].fn = "stop" /\ log[i].device = show

\* C33: when a shot is disabled and its profile does not set
\* show_when_disabled, after any call it has no running show: running_show
\* is None and the show that ran has been stopped.
C33_NoShowWhenDisabled ==
    [][(/\ shot'.loaded
        /\ ~shot'.enabled
        /\ ~shot'.profile.show_when_disabled) =>
           /\ shot'.running_show = NoShow
           /\ shot.running_show.show # None =>
                  StoppedIn(calls', shot.running_show.show)]_vars

\* disable() has stopped the show of a shot
C33_Witness ==
    /\ op.name = "disable"
    /\ ~shot.enabled
    /\ ~shot.profile.show_when_disabled
    /\ shot.running_show = NoShow
    /\ StoppedIn(calls, "flash")

\* the last call changed the state of the shot, or enabled it
StateChangedOrEnabled ==
    /\ op'.name \in {"advance", "jump", "reset", "hit", "enable"}
    /\ \/ shot'.state # shot.state
       \/ op'.name = "enable" /\ ~shot.enabled

\* the log stops one show and then plays the other
StoppedThenPlayed(log, stopped, shown) ==
    \E i, j \in 1..Len(log) :
        /\ i < j
        /\ log[i].fn = "stop" /\ log[i].device = stopped
        /\ log[j].fn = "play" /\ log[j].device = shown

\* C34: after a change of state or an enable of a shot that is enabled (or
\* shown when disabled) and whose new state has a show of its own, the
\* running show is that show; a running show that is that show, not
\* advanced manually, is kept without a stop or a play, and any other
\* running show is stopped before the new one is played.
C34_StateShowRuns ==
    [][(/\ StateChangedOrEnabled
        /\ ~ShowHidden(shot')
        /\ HasItem(shot'.profile.states, shot'.state)
        /\ Item(shot'.profile.states, shot'.state).show # None) =>
           LET settings == Item(shot'.profile.states, shot'.state)
               running == shot.running_show
           IN /\ shot'.running_show.show = settings.show
              /\ (/\ running.show = settings.show
                  /\ ~running.manual_advance
                  /\ settings.manual_advance # "True") => ShowUntouched
              /\ running.show \notin {None, settings.show} =>
                     StoppedThenPlayed(calls', running.show, settings.show)]_vars

\* advance() has wrapped from the last state to state 0, whose show is the
\* show of the last state, and the show was left as it ran
C34_Witness ==
    /\ op.name = "advance"
    /\ op.result = TRUE
    /\ shot.state = 0
    /\ shot.profile.loop
    /\ shot.enabled
    /\ shot.running_show.show = "on"
    /\ ~shot.running_show.manual_advance
    /\ calls = <<>>

\* C35: after add_to_light_update_list / add_to_led_update_list for device d
\* with priority p, the pending list holds no record for d with priority
\* <= p but the one just appended, whatever was pending before.
C35_AddLeavesNoLowerRecord ==
    [][/\ op'.name = "add_to_light_update_list" =>
              \A i \in 1..(Len(light_update_list') - 1) :
                  ~LightRemoveCond(light_update_list'[i], op'.device,
                                   op'.priority)
       /\ op'.name = "add_to_led_update_list" =>
              \A i \in 1..(Len(led_update_list') - 1) :
                  ~LedRemoveCond(led_update_list'[i], op'.device,
                                 op'.priority)]_vars

\* C36: every value of running_show_keys is a show object that is running;
\* stop_shows_by_key and stop_light_script with a key raise nothing; after
\* a show has ended no key maps to it.
C36_KeysReferToRunningShows ==
    [][/\ \A k \in Keys :
              running_show_keys'[k] # None =>
                  /\ running_show_keys'[k] \in Shows
                  /\ shows'[running_show_keys'[k]].running
       /\ op'.name \in {"stop_shows_by_key", "stop_light_script"} =>
              \A i \in 1..Len(calls') : calls'[i].fn # "raise"
       /\ \A s \in Shows :
              (shows[s].running /\ ~shows'[s].running) =>
                  \A k \in Keys : running_show_keys'[k] # s]_vars

\* C37: every command on the external command queue, a stop or a frame
\* queued before any start included, is applied by the end of the first tick
\* that begins after it was queued: a tick during which no producer queues
\* a command ends with the queue empty.
C37_QueueEmptyAfterTick ==
    [][(pc = "handlers" /\ pc' = "idle") =>
           external_show_command_queue' = <<>>]_vars

\* C38: whenever a switch is in active_delays of the shot a timer that
\* releases it is pending (so that the delay ends and hits are taken again),
\* also after the shot was disabled and enabled while the delay was active.
C38_ActiveDelayHasTimer ==
    shot.active_delays \subseteq shot.timers

\* the number of calls of tick() of the show in the log
TickCalls(log, s) ==
    Cardinality({i \in 1..Len(log) : log[i].fn = "tick" /\ log[i].device = s})

\* C39: in every tick each show that is in the running set when the tick
\* starts gets one call of tick(), none gets two and none is left out, also
\* when callbacks and playlist advances start and stop shows while _tick
\* goes through the set; a show that was stopped gets no tick() in a later
\* tick until it is played again (the set of a starting tick holds running
\* shows only).
C39_EachRunningShowTickedOnce ==
    [][/\ (pc = "shows" /\ pc' \in {"handlers", "raised"}) =>
              \A s \in Shows :
                  TickCalls(calls', s)
                      = IF InList(op.running_shows, s) THEN 1 ELSE 0
       /\ (pc = "idle" /\ pc' = "shows") =>
              \A i \in 1..Len(running_shows') :
                  shows'[running_shows'[i]].running]_vars

\* C40: each play action of a show_player section plays its show at the
\* priority the section gives the action plus the priority of the mode,
\* however many times the mode was started before: the value does not grow
\* from one start of the mode to the next.
C40_PlayPriorityDoesNotAccumulate ==
    op.name = "post" =>
        \A i \in 1..Len(calls) :
            calls[i].fn = "play" =>
                calls[i].priority
                    = show_player[op.event].configured + player_mode.priority

====
